---- MODULE Spec2Model ----
(***************************************************************************)
(* Persistence-matrix engine: the Z2 chain matrix with row access and      *)
(* removals (chain_matrix_0011.h), its chain columns, the representative   *)
(* cycle extractor, and the column types the matrix arithmetic is built    *)
(* on.                                                                     *)
(***************************************************************************)
EXTENDS Integers, Sequences, FiniteSets, TLC

\* ------------------------------------------------------------------ bounds
MaxFaces == 4
MaxAddTo == 3
MaxRow == 1

\* ------------------------------------------------------------------ state
VARIABLES
  matrix_,               \* column index -> chain column [rows, pivot, dim, pair]
  pivotToColumnIndex_,   \* pivot (face index) -> column index
  nextInsertIndex_,
  dimensions_,           \* dimensions_[d + 1] = number of columns of dimension d
  maxDim_,
  barcode_,              \* the list of bars, in list order
  indexToBar_,           \* face index -> position of its bar in barcode_
  representativeCycles_,
  birthToCycle_,
  boundaries,            \* face index -> the boundary it was inserted with
  addCount,              \* number of add_to calls issued by the caller
  status,                \* "ok", or how the last call failed
  lastCall,              \* name of the last call made
  \* one column and the column it is combined with
  kind,                  \* the column class
  characteristic,        \* of the coefficient field (product, for the multi-field)
  isChain,               \* chain column (tracked pivot) or boundary column
  column_,               \* the cells [row, element] in container order
  source_,               \* the cells of the other column
  pivot_,                \* tracked pivot of a chain column
  sourcePivot,           \* tracked pivot of the other column
  erasedValues_,         \* Vector_boundary_column: rows cleared lazily
  err,                   \* exception thrown by the last call, or "none"
  returned,              \* value returned by the last get_pivot, or "none"
  lastVal,               \* coefficient given to the last call, or -1
  snapshot,              \* column_ before the current run of additions
  addStreak,             \* number of consecutive column_ += source_
  \* the coefficient fields
  primes_,               \* Shared_multi_field_element: all characteristics
  productOfAllCharacteristics_,
  partials_,
  element_,              \* value held by a Shared_multi_field_element, -1: none built
  inverse,               \* [first, second] returned by the last inverse request
  fieldErr,              \* how the last field call failed, or "none"
  z2_element_,           \* value held by a Z2_field_element
  z2_other_,             \* value held by a second Z2_field_element
  z2_inverse,            \* value returned by the last get_inverse, -1: none
  z2_product,            \* value of the last product with that inverse, -1: none
  \* Id_to_index_overlay over a boundary matrix
  has_map_column_container,
  gudhi_debug,           \* GUDHI_CHECK throws (debug build) or does nothing
  idToIndex_,            \* face ID -> index; -1 marks a free slot of the vector
  nextIndex_,
  columnOrder,           \* the face whose column the matrix holds at each position
  reached,               \* index of the removed face at the check before its erasure
  swapReturned,          \* ID returned by the last vine_swap, -1: none
  overlayStatus,         \* "ok", or how the last overlay call failed
  twin,                  \* a new overlay given the calls made since reset
  cyclesRequested        \* get_representative_cycles() has been called

matVars == <<matrix_, pivotToColumnIndex_, nextInsertIndex_, dimensions_, maxDim_,
             barcode_, indexToBar_, representativeCycles_, birthToCycle_,
             boundaries, addCount, status>>

colVars == <<kind, characteristic, isChain, column_, source_, pivot_, sourcePivot,
             erasedValues_, err, returned, lastVal, snapshot, addStreak>>

fieldVars == <<primes_, productOfAllCharacteristics_, partials_, element_,
               inverse, fieldErr, z2_element_, z2_other_, z2_inverse, z2_product>>

overlayVars == <<has_map_column_container, gudhi_debug, idToIndex_, nextIndex_, columnOrder,
                 reached, swapReturned, overlayStatus, twin>>

vars == <<matVars, colVars, fieldVars, overlayVars, cyclesRequested, lastCall>>

\* ------------------------------------------------------------------ helpers
Max(S) == CHOOSE x \in S : \A y \in S : y <= x

Min(S) == CHOOSE x \in S : \A y \in S : x <= y

RECURSIVE SortedSeq(_)
SortedSeq(S) == IF S = {} THEN <<>> ELSE <<Min(S)>> \o SortedSeq(S \ {Min(S)})

Range(s) == {s[i] : i \in 1..Len(s)}

\* std::unordered_map::emplace: inserts only when the key is absent
emplace(map, key, value) ==
  IF key \in DOMAIN map THEN map ELSE (key :> value) @@ map

\* std::unordered_map::erase(key)
erase(map, key) == [k \in (DOMAIN map) \ {key} |-> map[k]]

\* ------------------------------------------------------------------ Z2 chain column
\* Z2_intrusive_set_column::operator+= : every cell of the source is erased
\* from the target when found there and inserted otherwise
Z2_add(target, source) == (target \ source) \cup (source \ target)

\* chain_matrix_0011.h _add_to, characteristic 2: the same on the temporary set
_add_to(column, set) == (set \ column) \cup (column \ set)

\* Chain column operator+= (Z2_intrusive_set_chain_column, List_chain_column,
\* Z2_heap_chain_column): the base addition, then, when the tracked pivot is
\* no longer in the target, the pivots of target and source are exchanged,
\* in the columns and in pivotToColumnIndex_.
\* S = [m |-> matrix_, p |-> pivotToColumnIndex_, st |-> status]
chain_plus_eq(S, targetIdx, sourceIdx) ==
  LET t == S.m[targetIdx]
      s == S.m[sourceIdx]
      sum == Z2_add(t.rows, s.rows)
      added == [S.m EXCEPT ![targetIdx].rows = sum]
  IN IF t.pivot \in sum
       THEN [S EXCEPT !.m = added]
       ELSE IF t.pivot \notin DOMAIN S.p \/ s.pivot \notin DOMAIN S.p
         THEN [S EXCEPT !.m = added, !.st = "out_of_range"]
         ELSE [m |-> [added EXCEPT ![targetIdx].pivot = s.pivot,
                                   ![sourceIdx].pivot = t.pivot],
               p |-> [S.p EXCEPT ![t.pivot] = S.p[s.pivot],
                                 ![s.pivot] = S.p[t.pivot]],
               st |-> S.st]

\* Chain_matrix_with_row_access_with_removals::add_to:
\*   matrix_.at(targetColumnIndex) += matrix_.at(sourceColumnIndex)
\* Adding a column to itself iterates over the cells it erases.
add_to_state(S, sourceColumnIndex, targetColumnIndex) ==
  IF S.st # "ok" THEN S
  ELSE IF targetColumnIndex \notin DOMAIN S.m \/ sourceColumnIndex \notin DOMAIN S.m
    THEN [S EXCEPT !.st = "out_of_range"]
  ELSE IF sourceColumnIndex = targetColumnIndex
    THEN [S EXCEPT !.st = "undefined"]
  ELSE chain_plus_eq(S, targetColumnIndex, sourceColumnIndex)

\* ------------------------------------------------------------------ reduction
\* The two while loops of _reduce_boundary with _reduce_by_G and _reduce_by_F
\* (characteristic 2). M and P are matrix_ and pivotToColumnIndex_, which the
\* loops only read. phase 1 is the first loop (paired columns only), phase 2
\* the second. seen holds the loop heads already visited: meeting one again
\* means the loops never end.
RECURSIVE _reduce_loops(_, _, _, _, _, _, _)
_reduce_loops(M, P, phase, column, chainsInH, chainsInF, seen) ==
  IF column = {} THEN [kind |-> "paired", H |-> chainsInH, F |-> chainsInF]
  ELSE IF <<phase, column>> \in seen THEN [kind |-> "diverged", H |-> chainsInH, F |-> chainsInF]
  ELSE LET last == Max(column) IN
    IF last \notin DOMAIN P THEN [kind |-> "out_of_range", H |-> chainsInH, F |-> chainsInF]
    ELSE LET currentPivot == P[last] IN
      IF currentPivot \notin DOMAIN M
        THEN [kind |-> "out_of_range", H |-> chainsInH, F |-> chainsInF]
      ELSE LET col == M[currentPivot]
               reduced == _add_to(col.rows, column)
               visited == seen \cup {<<phase, column>>}
           IN IF col.pair # -1
                THEN \* _reduce_by_G
                  IF phase = 1 /\ reduced = {}
                    THEN [kind |-> "essential", H |-> Append(chainsInH, col.pair), F |-> chainsInF]
                    ELSE _reduce_loops(M, P, phase, reduced, Append(chainsInH, col.pair),
                                       chainsInF, visited)
                ELSE \* _reduce_by_F
                  _reduce_loops(M, P, 2, reduced, chainsInH,
                                Append(chainsInF, currentPivot), visited)

\* _update_largest_death_in_F, characteristic 2: every other column of
\* chainsInF is added to the first one
RECURSIVE _update_largest_death_in_F(_, _, _, _)
_update_largest_death_in_F(S, chainsInF, i, toUpdate) ==
  IF i > Len(chainsInF) \/ S.st # "ok" THEN S
  ELSE _update_largest_death_in_F(add_to_state(S, chainsInF[i], toUpdate),
                                  chainsInF, i + 1, toUpdate)

\* mutant: the H columns of the reduction are not folded back
_build_from_H_skipped(M, column, chainsInH, i) == <<column, TRUE>>

\* _build_from_H, characteristic 2: the new face plus the H columns collected
\* during the reduction. Returns <<column, ok>>.
RECURSIVE _build_from_H(_, _, _, _)
_build_from_H(M, column, chainsInH, i) ==
  IF i > Len(chainsInH) THEN <<column, TRUE>>
  ELSE IF chainsInH[i] \notin DOMAIN M THEN <<column, FALSE>>
  ELSE _build_from_H(M, _add_to(M[chainsInH[i]].rows, column), chainsInH, i + 1)

\* chain column constructor: pivot_ = *chain.rbegin()
new_chain_pivot(column) == Max(column)

NewColumn(column, dimension) ==
  [rows |-> column, pivot |-> new_chain_pivot(column), dim |-> dimension, pair |-> -1]

\* ------------------------------------------------------------------ insertion
\* T is the matrix state threaded through one call:
\* [m, p, n, dims, maxDim, bars, i2b, st]
\* _insert_chain(column, dimension): a new unpaired column and a new bar
_insert_chain(T, column, dimension) ==
  IF column = {} THEN [T EXCEPT !.st = "undefined"]
  ELSE LET bars == Append(T.bars, [dim |-> dimension, birth |-> T.n, death |-> -1])
       IN [T EXCEPT !.p = emplace(T.p, new_chain_pivot(column), T.n),
                    !.m = emplace(T.m, T.n, NewColumn(column, dimension)),
                    !.bars = bars,
                    !.i2b = emplace(T.i2b, T.n, Len(bars)),
                    !.n = T.n + 1]

\* mutant: the death of the bar is not recorded
set_death_forgotten(bars, pos, death) == bars

\* mutant: the bar is closed at its own birth
set_death_at_birth(bars, pos, death) == [bars EXCEPT ![pos].death = bars[pos].birth]

\* bar->death = death, through the iterator kept in indexToBar_
set_death(bars, pos, death) == [bars EXCEPT ![pos].death = death]

\* _insert_chain(column, dimension, pair): a new column paired with column
\* pair, whose bar is closed at the new index
_insert_chain_paired(T, column, dimension, pair) ==
  IF column = {} THEN [T EXCEPT !.st = "undefined"]
  ELSE LET p1 == emplace(T.p, new_chain_pivot(column), T.n)
           m1 == emplace(T.m, T.n, NewColumn(column, dimension))
           m2 == [m1 EXCEPT ![T.n].pair = pair]
           m3 == [m2 EXCEPT ![pair].pair = T.n]
           pv == m3[pair].pivot
       IN IF pv \notin DOMAIN T.i2b
            THEN [T EXCEPT !.p = p1, !.m = m3, !.st = "out_of_range"]
          ELSE IF T.i2b[pv] = 0
            THEN [T EXCEPT !.p = p1, !.m = m3, !.st = "undefined"]
          ELSE [T EXCEPT !.p = p1, !.m = m3,
                         !.bars = set_death(T.bars, T.i2b[pv], T.n),
                         !.i2b = emplace(T.i2b, T.n, T.i2b[pv]),
                         !.n = T.n + 1]

\* _reduce_boundary
_reduce_boundary(T, boundary, dim) ==
  IF boundary = {} THEN _insert_chain(T, {T.n}, dim)
  ELSE LET r == _reduce_loops(T.m, T.p, 1, boundary, <<>>, <<>>, {}) IN
    CASE r.kind = "out_of_range" -> [T EXCEPT !.st = "out_of_range"]
      [] r.kind = "diverged" -> [T EXCEPT !.st = "diverged"]
      [] r.kind = "essential" ->
           LET built == _build_from_H(T.m, {T.n}, r.H, 1)
           IN IF built[2] THEN _insert_chain(T, built[1], dim)
                          ELSE [T EXCEPT !.st = "out_of_range"]
      [] r.kind = "paired" ->
           LET chain_fp == r.F[1]
               S == _update_largest_death_in_F([m |-> T.m, p |-> T.p, st |-> T.st],
                                               r.F, 2, chain_fp)
               T1 == [T EXCEPT !.m = S.m, !.p = S.p, !.st = S.st]
               built == _build_from_H(S.m, {T.n}, r.H, 1)
           IN IF S.st # "ok" THEN T1
              ELSE IF ~built[2] THEN [T1 EXCEPT !.st = "out_of_range"]
              ELSE _insert_chain_paired(T1, built[1], dim, chain_fp)

\* mutant: the dimension of a boundary is its number of faces
boundary_dim_is_size(boundary) == Cardinality(boundary)

\* int dim = boundary.size() == 0 ? 0 : boundary.size() - 1
boundary_dim(boundary) == IF boundary = {} THEN 0 ELSE Cardinality(boundary) - 1

\* dimensions_.resize(dim + 1) when too short, then ++dimensions_[dim]
count_dimension(dims, dim) ==
  LET resized == IF Len(dims) <= dim
                   THEN dims \o [i \in 1..(dim + 1 - Len(dims)) |-> 0]
                   ELSE dims
  IN [resized EXCEPT ![dim + 1] = @ + 1]

\* insert_boundary(boundary)
insert_boundary_state(T, boundary) ==
  LET dim == boundary_dim(boundary)
      T1 == [T EXCEPT !.maxDim = IF T.maxDim < dim THEN dim ELSE T.maxDim,
                      !.dims = count_dimension(T.dims, dim)]
  IN _reduce_boundary(T1, boundary, dim)

\* ------------------------------------------------------------------ removal
\* while (dimensions_.back() == 0) dimensions_.pop_back();
\* an empty result means back() was evaluated on an empty vector
RECURSIVE pop_empty_dimensions(_)
pop_empty_dimensions(dims) ==
  IF dims = <<>> THEN <<>>
  ELSE IF dims[Len(dims)] = 0 THEN pop_empty_dimensions(SubSeq(dims, 1, Len(dims) - 1))
  ELSE dims

\* std::list::erase(bar): the iterators to the bars behind it stay valid; an
\* iterator to the erased bar dangles (position 0)
erase_bar(bars, pos) ==
  [i \in 1..(Len(bars) - 1) |-> IF i < pos THEN bars[i] ELSE bars[i + 1]]

iterators_after_erase(i2b, pos) ==
  [k \in DOMAIN i2b |-> IF i2b[k] = pos THEN 0
                        ELSE IF i2b[k] > pos THEN i2b[k] - 1 ELSE i2b[k]]

\* if (bar->death == -1) _barcode().erase(bar); else bar->death = -1;
reopen_bar(T, pos) ==
  IF T.bars[pos].death = -1
    THEN [T EXCEPT !.bars = erase_bar(T.bars, pos),
                   !.i2b = iterators_after_erase(T.i2b, pos)]
    ELSE [T EXCEPT !.bars = [T.bars EXCEPT ![pos].death = -1]]

\* erase_last, from the barcode update on; T.n is already decremented
erase_last_column(T) ==
  IF T.n \notin DOMAIN T.i2b THEN [T EXCEPT !.st = "out_of_range"]
  ELSE IF T.i2b[T.n] = 0 THEN [T EXCEPT !.st = "undefined"]
  ELSE LET B == reopen_bar(T, T.i2b[T.n])
           T1 == [B EXCEPT !.i2b = erase(B.i2b, T.n)]
       IN IF T.n \notin DOMAIN T1.p THEN [T1 EXCEPT !.st = "out_of_range"]
          ELSE LET toErase == T1.p[T.n] IN
            IF toErase \notin DOMAIN T1.m THEN [T1 EXCEPT !.st = "out_of_range"]
            ELSE LET c == T1.m[toErase] IN
              IF c.pair # -1 /\ c.pair \notin DOMAIN T1.m
                THEN [T1 EXCEPT !.st = "out_of_range"]
              ELSE LET m1 == IF c.pair # -1 THEN [T1.m EXCEPT ![c.pair].pair = -1]
                                            ELSE T1.m
                   IN [T1 EXCEPT !.p = erase(T1.p, T.n), !.m = erase(m1, toErase)]

\* --x on an unsigned word: 0 wraps to the all-ones word, written -1 here
\* (it is never a key of a map and never equal to 0)
decrement(x) == IF x = 0 THEN -1 ELSE x - 1

\* erase_last; emptyRead is what the build does when dimensions_.back() is
\* evaluated on the emptied vector: "stop" (the stray value is not 0) or
\* "corrupt" (it is 0, and pop_back runs on an empty vector)
erase_last_state(T, emptyRead) ==
  LET n1 == decrement(T.n)
      T1 == [T EXCEPT !.n = n1]
  IN IF n1 \notin DOMAIN T.m THEN [T1 EXCEPT !.st = "out_of_range"]
     ELSE LET dim == T.m[n1].dim IN
       IF dim + 1 > Len(T.dims) THEN [T1 EXCEPT !.st = "undefined"]
       ELSE LET dims1 == [T.dims EXCEPT ![dim + 1] = decrement(@)]
                dims2 == pop_empty_dimensions(dims1)
                T2 == [T1 EXCEPT !.dims = dims2, !.maxDim = Len(dims2) - 1]
            IN IF dims2 = <<>> /\ emptyRead = "corrupt"
                 THEN [T2 EXCEPT !.st = "undefined"]
                 ELSE erase_last_column(T2)

\* ------------------------------------------------------------------ representative cycles
\* mutant: every column is reported, paired or not
is_surviving_birth_always(col, i) == TRUE

\* if (!col.is_paired() || i < col.get_paired_chain_index())
is_surviving_birth(col, i) == col.pair = -1 \/ i < col.pair

\* update_representative_cycles: R = [cycles, b2c, st], i the loop index
RECURSIVE update_cycles_loop(_, _, _, _, _)
update_cycles_loop(M, P, n, i, R) ==
  IF i >= n THEN R
  ELSE IF i \notin DOMAIN P THEN [R EXCEPT !.st = "out_of_range"]
  ELSE IF P[i] \notin DOMAIN M THEN [R EXCEPT !.st = "out_of_range"]
  ELSE LET col == M[P[i]] IN
    IF is_surviving_birth(col, i)
      THEN LET cycles == Append(R.cycles, SortedSeq(col.rows))
           IN update_cycles_loop(M, P, n, i + 1,
                [R EXCEPT !.cycles = cycles, !.b2c[i + 1] = Len(cycles) - 1])
      ELSE update_cycles_loop(M, P, n, i + 1, R)

\* ------------------------------------------------------------------ chain matrix: calls
MatrixState ==
  [m |-> matrix_, p |-> pivotToColumnIndex_, n |-> nextInsertIndex_,
   dims |-> dimensions_, maxDim |-> maxDim_, bars |-> barcode_,
   i2b |-> indexToBar_, st |-> status]

SetMatrixState(T) ==
  /\ matrix_' = T.m
  /\ pivotToColumnIndex_' = T.p
  /\ nextInsertIndex_' = T.n
  /\ dimensions_' = T.dims
  /\ maxDim_' = T.maxDim
  /\ barcode_' = T.bars
  /\ indexToBar_' = T.i2b
  /\ status' = T.st

\* no field element and no shared configuration: static members as declared
NoField ==
  /\ primes_ = <<>> /\ productOfAllCharacteristics_ = 0 /\ partials_ = <<>>
  /\ element_ = -1 /\ inverse = <<>>
  /\ fieldErr = "none" /\ z2_element_ = 0 /\ z2_other_ = 0 /\ z2_inverse = -1
  /\ z2_product = -1

\* Id_to_index_overlay(colSettings): an empty matrix and an empty map
NoOverlay ==
  /\ has_map_column_container = TRUE /\ gudhi_debug = FALSE
  /\ idToIndex_ = <<>> /\ nextIndex_ = 0
  /\ columnOrder = <<>> /\ reached = -1 /\ swapReturned = -1
  /\ overlayStatus = "ok" /\ twin = <<>>

NoColumn ==
  /\ kind = "none" /\ characteristic = 2 /\ isChain = FALSE
  /\ column_ = <<>> /\ source_ = <<>> /\ pivot_ = -1 /\ sourcePivot = -1
  /\ erasedValues_ = {} /\ err = "none" /\ returned = "none" /\ lastVal = -1
  /\ snapshot = <<>> /\ addStreak = 0

Init ==
  /\ matrix_ = <<>>
  /\ pivotToColumnIndex_ = <<>>
  /\ nextInsertIndex_ = 0
  /\ dimensions_ = <<>>
  /\ maxDim_ = -1
  /\ barcode_ = <<>>
  /\ indexToBar_ = <<>>
  /\ representativeCycles_ = <<>>
  /\ birthToCycle_ = <<>>
  /\ boundaries = <<>>
  /\ addCount = 0
  /\ status = "ok"
  /\ lastCall = "none"
  /\ NoColumn
  /\ NoField
  /\ NoOverlay
  /\ cyclesRequested = FALSE

insert_boundary(boundary) ==
  /\ status = "ok"
  /\ SetMatrixState(insert_boundary_state(MatrixState, boundary))
  /\ boundaries' = (nextInsertIndex_ :> boundary) @@ boundaries
  /\ lastCall' = "insert_boundary"
  /\ UNCHANGED <<representativeCycles_, birthToCycle_, addCount, colVars,
                 fieldVars, overlayVars, cyclesRequested>>

add_to(sourceColumnIndex, targetColumnIndex) ==
  /\ status = "ok"
  /\ addCount < MaxAddTo
  /\ LET S == add_to_state([m |-> matrix_, p |-> pivotToColumnIndex_, st |-> status],
                           sourceColumnIndex, targetColumnIndex)
     IN /\ matrix_' = S.m
        /\ pivotToColumnIndex_' = S.p
        /\ status' = S.st
  /\ addCount' = addCount + 1
  /\ lastCall' = "add_to"
  /\ UNCHANGED <<nextInsertIndex_, dimensions_, maxDim_, barcode_, indexToBar_,
                 representativeCycles_, birthToCycle_, boundaries, colVars,
                 fieldVars, overlayVars, cyclesRequested>>

erase_last ==
  /\ status = "ok"
  /\ \E emptyRead \in {"stop", "corrupt"} :
       SetMatrixState(erase_last_state(MatrixState, emptyRead))
  /\ boundaries' = erase(boundaries, nextInsertIndex_ - 1)
  /\ lastCall' = "erase_last"
  /\ UNCHANGED <<representativeCycles_, birthToCycle_, addCount, colVars,
                 fieldVars, overlayVars, cyclesRequested>>

update_representative_cycles ==
  /\ status = "ok"
  /\ LET R == update_cycles_loop(matrix_, pivotToColumnIndex_, nextInsertIndex_, 0,
                [cycles |-> <<>>, b2c |-> [i \in 1..nextInsertIndex_ |-> -1], st |-> "ok"])
     IN /\ representativeCycles_' = R.cycles
        /\ birthToCycle_' = R.b2c
        /\ status' = R.st
  /\ lastCall' = "update_representative_cycles"
  /\ UNCHANGED <<matrix_, pivotToColumnIndex_, nextInsertIndex_, dimensions_, maxDim_,
                 barcode_, indexToBar_, boundaries, addCount, colVars,
                 fieldVars, overlayVars, cyclesRequested>>

FaceIndices == 0..(nextInsertIndex_ - 1)

\* any sequence of insert_boundary, add_to and erase_last
Next ==
  \/ \E boundary \in SUBSET FaceIndices :
       nextInsertIndex_ < MaxFaces /\ insert_boundary(boundary)
  \/ \E s \in DOMAIN matrix_ : \E t \in (DOMAIN matrix_) \ {s} : add_to(s, t)
  \/ erase_last

Spec == Init /\ [][Next]_vars

\* any sequence of insert_boundary and erase_last
NextBarcode ==
  \/ \E boundary \in SUBSET FaceIndices :
       nextInsertIndex_ < MaxFaces /\ insert_boundary(boundary)
  \/ erase_last

SpecBarcode == Init /\ [][NextBarcode]_vars

\* ------------------------------------------------------------------ claims: chain matrix
\* C1: after any sequence of insert_boundary, add_to and erase_last on the
\* chain matrix, no two columns report the same pivot, and
\* pivotToColumnIndex_ maps every pivot p to exactly the column c with
\* get_pivot(c) = p.
C1_PivotsMatchColumns ==
  status = "ok" =>
    /\ \A c \in DOMAIN matrix_ : \A d \in DOMAIN matrix_ :
         c # d => matrix_[c].pivot # matrix_[d].pivot
    /\ \A p \in DOMAIN pivotToColumnIndex_ :
         /\ pivotToColumnIndex_[p] \in DOMAIN matrix_
         /\ matrix_[pivotToColumnIndex_[p]].pivot = p
    /\ \A c \in DOMAIN matrix_ :
         /\ matrix_[c].pivot \in DOMAIN pivotToColumnIndex_
         /\ pivotToColumnIndex_[matrix_[c].pivot] = c

FiniteBars == {i \in 1..Len(barcode_) : barcode_[i].death # -1}

\* C2: after any sequence of insert_boundary and erase_last with the barcode
\* enabled, every bar with a finite death has birth < death, no face index is
\* the birth of more than one bar and none is the death of more than one bar.
C2_BarsWellFormed ==
  status = "ok" =>
    /\ \A i \in FiniteBars : barcode_[i].birth < barcode_[i].death
    /\ \A i \in 1..Len(barcode_) : \A j \in 1..Len(barcode_) :
         i # j => barcode_[i].birth # barcode_[j].birth
    /\ \A i \in FiniteBars : \A j \in FiniteBars :
         i # j => barcode_[i].death # barcode_[j].death

\* a face was removed and a closed bar and an open bar are left
C2_Witness ==
  /\ status = "ok"
  /\ lastCall = "erase_last"
  /\ FiniteBars # {}
  /\ \E i \in 1..Len(barcode_) : barcode_[i].death = -1

TwoVerticesOneEdge ==
  /\ status = "ok"
  /\ lastCall = "insert_boundary"
  /\ nextInsertIndex_ = 3
  /\ boundaries = (0 :> {} @@ 1 :> {} @@ 2 :> {0, 1})

\* C5 as stated: inserting {}, {}, {0,1} over Z2 yields exactly two bars, the
\* finite bar (dimension 0, birth 0, death 2) and the essential bar
\* (dimension 0, birth 0).
C5_AsStated ==
  TwoVerticesOneEdge =>
    /\ Len(barcode_) = 2
    /\ Range(barcode_) = {[dim |-> 0, birth |-> 0, death |-> 2],
                          [dim |-> 0, birth |-> 0, death |-> -1]}

\* C5, as the code computes it: inserting {}, {}, {0,1} over Z2 yields exactly
\* two bars, the finite bar (dimension 0, birth 1, death 2) of the younger
\* vertex and the essential bar (dimension 0, birth 0) of the older one.
C5_TwoVerticesOneEdge ==
  TwoVerticesOneEdge =>
    /\ Len(barcode_) = 2
    /\ Range(barcode_) = {[dim |-> 0, birth |-> 1, death |-> 2],
                          [dim |-> 0, birth |-> 0, death |-> -1]}

C5_Witness == TwoVerticesOneEdge /\ Len(barcode_) = 2

\* ------------------------------------------------------------------ filtrations
\* the Z2 sum of the boundaries the faces of a chain were inserted with
RECURSIVE boundary_of_chain(_)
boundary_of_chain(chain) ==
  IF chain = {} THEN {}
  ELSE LET f == Min(chain) IN Z2_add(boundaries[f], boundary_of_chain(chain \ {f}))

\* a boundary of a valid filtration: made of faces already inserted, and a cycle
ValidBoundary(boundary) ==
  /\ boundary \subseteq FaceIndices
  /\ boundary_of_chain(boundary) = {}

\* any valid filtration, the representative cycles computed at any point
NextFiltration ==
  \/ \E boundary \in SUBSET FaceIndices :
       /\ nextInsertIndex_ < MaxFaces
       /\ ValidBoundary(boundary)
       /\ insert_boundary(boundary)
  \/ update_representative_cycles

SpecFiltration == Init /\ [][NextFiltration]_vars

\* zigzag_persistence_unit_test.cpp, get_boundaries(): faces 0..13
FixtureBoundaries ==
  << {}, {}, {}, {0, 1}, {0, 2}, {}, {1, 2}, {}, {5, 7}, {},
     {3, 4, 6}, {7, 9}, {5, 9}, {8, 11, 12} >>

\* zigzag_persistence_unit_test.cpp, get_filtration_values(): faces 0..13
FixtureFiltrationValues == << 0, 0, 0, 1, 1, 1, 2, 2, 2, 3, 3, 3, 3, 4 >>

\* the loop of zigzag_persistence_single over the first faces of the fixture
insert_face ==
  /\ nextInsertIndex_ < Len(FixtureBoundaries)
  /\ insert_boundary(FixtureBoundaries[nextInsertIndex_ + 1])

NextZigzag ==
  \/ insert_face
  \/ update_representative_cycles

SpecZigzag == Init /\ [][NextZigzag]_vars

\* ------------------------------------------------------------------ claims: filtrations
\* C3: after inserting any valid filtration into the Z2 chain matrix and
\* computing the representative cycles, every returned cycle is a genuine
\* cycle: the Z2 sum of the original boundaries of its faces is empty.
C3_RepresentativeCyclesAreCycles ==
  status = "ok" =>
    \A k \in 1..Len(representativeCycles_) :
      boundary_of_chain(Range(representativeCycles_[k])) = {}

\* cycles were computed on a matrix holding a paired column, and one of them
\* has more than one face
C3_Witness ==
  /\ status = "ok"
  /\ lastCall = "update_representative_cycles"
  /\ \E c \in DOMAIN matrix_ : matrix_[c].pair # -1
  /\ \E k \in 1..Len(representativeCycles_) : Len(representativeCycles_[k]) > 1

IndexBars == {barcode_[i] : i \in FiniteBars}

\* the filtration bar of an index bar
FiltrationBar(bar) ==
  [dim |-> bar.dim,
   birth |-> FixtureFiltrationValues[bar.birth + 1],
   death |-> FixtureFiltrationValues[bar.death + 1]]

\* the number of index bars of positive length mapped to a filtration bar
NumberOfFiltrationBars(fbar) ==
  Cardinality({bar \in IndexBars :
                 /\ FiltrationBar(bar) = fbar
                 /\ FiltrationBar(bar).birth # FiltrationBar(bar).death})

FixtureInserted ==
  /\ status = "ok"
  /\ nextInsertIndex_ = Len(FixtureBoundaries)

Bar(d, b, e) == [dim |-> d, birth |-> b, death |-> e]

\* C4: inserting faces 0..13 of the zigzag fixture in order closes exactly the
\* index bars (0,1,3), (0,2,4), (0,7,8), (1,6,10), (0,9,11), (1,12,13), given
\* as (dim, birth, death), which under the fixture's filtration values, zero
\* length bars discarded, are exactly the filtration bars (0,0,1), (0,0,1),
\* (1,2,3), (1,3,4).
C4_ZigzagFixtureBars ==
  FixtureInserted =>
    /\ Cardinality(FiniteBars) = 6
    /\ IndexBars = {Bar(0, 1, 3), Bar(0, 2, 4), Bar(0, 7, 8),
                    Bar(1, 6, 10), Bar(0, 9, 11), Bar(1, 12, 13)}
    /\ NumberOfFiltrationBars(Bar(0, 0, 1)) = 2
    /\ NumberOfFiltrationBars(Bar(1, 2, 3)) = 1
    /\ NumberOfFiltrationBars(Bar(1, 3, 4)) = 1
    /\ \A bar \in IndexBars :
         FiltrationBar(bar).birth # FiltrationBar(bar).death
           => FiltrationBar(bar) \in {Bar(0, 0, 1), Bar(1, 2, 3), Bar(1, 3, 4)}

C4_Witness == FixtureInserted /\ Cardinality(FiniteBars) = 6

\* ------------------------------------------------------------------ field elements
\* an element built from a value is reduced modulo the characteristic
get_value(val) == val % characteristic

\* operator+= of the field elements
add(e1, e2) == (e1 + e2) % characteristic

\* operator*= of the field elements (mpz_mul, then mpz_mod by the product)
multiply(e1, e2) == (e1 * e2) % characteristic

\* ------------------------------------------------------------------ columns
Cell(rowIndex, element) == [row |-> rowIndex, element |-> element]

RowsOf(col) == {col[i].row : i \in 1..Len(col)}

\* the cells of col whose row passes the test, in order
RECURSIVE KeepRows(_, _)
KeepRows(col, rows) ==
  IF col = <<>> THEN <<>>
  ELSE IF Head(col).row \in rows THEN <<Head(col)>> \o KeepRows(Tail(col), rows)
  ELSE KeepRows(Tail(col), rows)

\* std::set / intrusive set / list sort: the cells ordered by row, one per row
RECURSIVE SortByRow(_)
SortByRow(col) ==
  IF col = <<>> THEN <<>>
  ELSE LET least == Min(RowsOf(col))
           first == CHOOSE i \in 1..Len(col) :
                      col[i].row = least /\ \A j \in 1..(i - 1) : col[j].row # least
       IN <<col[first]>> \o SortByRow(KeepRows(col, RowsOf(col) \ {least}))

\* column_.sort() of a list: stable, cells of equal row all kept
RECURSIVE list_sort(_)
list_sort(col) ==
  IF col = <<>> THEN <<>>
  ELSE LET least == Min(RowsOf(col))
       IN KeepRows(col, {least}) \o list_sort(KeepRows(col, RowsOf(col) \ {least}))

\* ------------------------------------------------------------------ Intrusive_list_column
\* _add(column): returns [col, zeroed], zeroed when the cell of the tracked
\* pivot was deleted
RECURSIVE _add(_, _)
_add(target, source) ==
  IF source = <<>> THEN [col |-> target, zeroed |-> FALSE]
  ELSE IF target = <<>> THEN [col |-> source, zeroed |-> FALSE]
  ELSE IF Head(target).row < Head(source).row
    THEN LET r == _add(Tail(target), source)
         IN [col |-> <<Head(target)>> \o r.col, zeroed |-> r.zeroed]
  ELSE IF Head(target).row > Head(source).row
    THEN LET r == _add(target, Tail(source))
         IN [col |-> <<Head(source)>> \o r.col, zeroed |-> r.zeroed]
  ELSE LET sum == add(Head(target).element, Head(source).element)
           r == _add(Tail(target), Tail(source))
       IN IF characteristic = 2 \/ sum = 0
            THEN [col |-> r.col,
                  zeroed |-> r.zeroed \/ (isChain /\ Head(target).row = pivot_)]
            ELSE [col |-> <<Cell(Head(target).row, sum)>> \o r.col, zeroed |-> r.zeroed]

\* the loops of _multiply_and_add(val, column): the target is scaled
RECURSIVE _multiply_and_add_loops(_, _, _)
_multiply_and_add_loops(val, target, source) ==
  IF target = <<>> THEN [col |-> source, zeroed |-> FALSE]
  ELSE IF source = <<>> \/ Head(target).row < Head(source).row
    THEN LET r == _multiply_and_add_loops(val, Tail(target), source)
         IN [col |-> <<Cell(Head(target).row, multiply(Head(target).element, val))>> \o r.col,
             zeroed |-> r.zeroed]
  ELSE IF Head(target).row > Head(source).row
    THEN LET r == _multiply_and_add_loops(val, target, Tail(source))
         IN [col |-> <<Head(source)>> \o r.col, zeroed |-> r.zeroed]
  ELSE LET sum == add(multiply(Head(target).element, val), Head(source).element)
           r == _multiply_and_add_loops(val, Tail(target), Tail(source))
       IN IF sum = 0
            THEN [col |-> r.col,
                  zeroed |-> r.zeroed \/ (isChain /\ Head(target).row = pivot_)]
            ELSE [col |-> <<Cell(Head(target).row, sum)>> \o r.col, zeroed |-> r.zeroed]

\* _multiply_and_add(val, column): returns [col, zeroed, err]
_multiply_and_add(val, target, source) ==
  IF val = 0 /\ isChain
    THEN [col |-> target, zeroed |-> FALSE, err |-> "invalid_argument"]
    ELSE LET r == _multiply_and_add_loops(val, IF val = 0 THEN <<>> ELSE target, source)
         IN [col |-> r.col, zeroed |-> r.zeroed, err |-> "none"]

\* the loops of _multiply_and_add(column, val): the source is scaled
RECURSIVE _multiply_source_and_add_loops(_, _, _)
_multiply_source_and_add_loops(target, source, val) ==
  IF source = <<>> THEN [col |-> target, zeroed |-> FALSE]
  ELSE IF target = <<>> \/ Head(target).row > Head(source).row
    THEN LET r == _multiply_source_and_add_loops(target, Tail(source), val)
         IN [col |-> <<Cell(Head(source).row, multiply(Head(source).element, val))>> \o r.col,
             zeroed |-> r.zeroed]
  ELSE IF Head(target).row < Head(source).row
    THEN LET r == _multiply_source_and_add_loops(Tail(target), source, val)
         IN [col |-> <<Head(target)>> \o r.col, zeroed |-> r.zeroed]
  ELSE LET sum == add(multiply(Head(source).element, val), Head(target).element)
           r == _multiply_source_and_add_loops(Tail(target), Tail(source), val)
       IN IF sum = 0
            THEN [col |-> r.col,
                  zeroed |-> r.zeroed \/ (isChain /\ Head(target).row = pivot_)]
            ELSE [col |-> <<Cell(Head(target).row, sum)>> \o r.col, zeroed |-> r.zeroed]

\* _multiply_and_add(column, val)
_multiply_source_and_add(target, source, val) ==
  IF val = 0 THEN [col |-> target, zeroed |-> FALSE]
  ELSE _multiply_source_and_add_loops(target, source, val)

\* ------------------------------------------------------------------ set columns
\* std::set::insert: kept in row order, refused when the row is present
set_insert(col, cell) == SortByRow(Append(col, cell))

set_erase(col, rowIndex) == KeepRows(col, RowsOf(col) \ {rowIndex})

find(col, rowIndex) == CHOOSE i \in 1..Len(col) : col[i].row = rowIndex

\* Set_column::operator+=
RECURSIVE Set_column_plus_eq(_, _)
Set_column_plus_eq(target, source) ==
  IF source = <<>> THEN target
  ELSE LET v == Head(source) IN
    IF v.row \in RowsOf(target)
      THEN LET c == find(target, v.row)
               sum == add(target[c].element, v.element)
           IN IF sum = 0
                THEN Set_column_plus_eq(set_erase(target, v.row), Tail(source))
                ELSE Set_column_plus_eq([target EXCEPT ![c].element = sum], Tail(source))
      ELSE Set_column_plus_eq(set_insert(target, v), Tail(source))

\* for (Cell& cell : column_) cell.get_element() *= v
scale_cells(col, v) == [i \in 1..Len(col) |-> Cell(col[i].row, multiply(col[i].element, v))]

\* Set_column::operator*=
Set_column_times_eq(col, v) ==
  IF get_value(v) = 0 THEN <<>> ELSE scale_cells(col, get_value(v))

\* mutant: a row present in both columns is kept
Z2_set_add_keeps_common(target, source) ==
  SortByRow(target \o KeepRows(source, RowsOf(source) \ RowsOf(target)))

\* Z2_set_column::add and Z2_intrusive_set_column::operator+=
RECURSIVE Z2_set_add(_, _)
Z2_set_add(target, source) ==
  IF source = <<>> THEN target
  ELSE LET v == Head(source) IN
    IF v.row \in RowsOf(target)
      THEN Z2_set_add(set_erase(target, v.row), Tail(source))
      ELSE Z2_set_add(set_insert(target, v), Tail(source))

\* Z2_intrusive_set_column::operator*=
Z2_times_eq(col, v) == IF v % 2 = 0 THEN <<>> ELSE col

\* reorder of the set columns: the rows are mapped and the set rebuilt
set_reorder(col, valueMap) ==
  SortByRow([i \in 1..Len(col) |-> Cell(valueMap[col[i].row], col[i].element)])

\* ------------------------------------------------------------------ Reduced_cell_list_column_with_row
\* operator+=: on equal rows the iterators advance only when the sum is zero
RECURSIVE Reduced_cell_list_plus_eq(_, _)
Reduced_cell_list_plus_eq(tc, sc) ==
  IF sc = <<>> THEN tc
  ELSE IF tc = <<>> THEN sc
  ELSE IF Head(tc).row < Head(sc).row
    THEN <<Head(tc)>> \o Reduced_cell_list_plus_eq(Tail(tc), sc)
  ELSE IF Head(tc).row > Head(sc).row
    THEN <<Head(sc)>> \o Reduced_cell_list_plus_eq(tc, Tail(sc))
  ELSE LET sum == add(Head(tc).element, Head(sc).element)
       IN IF sum = 0
            THEN Reduced_cell_list_plus_eq(Tail(tc), Tail(sc))
            ELSE Reduced_cell_list_plus_eq(<<Cell(Head(tc).row, sum)>> \o Tail(tc), sc)

\* operator*=
Reduced_cell_list_times_eq(col, v) ==
  IF get_value(v) = 0 THEN <<>> ELSE scale_cells(col, get_value(v))

\* ------------------------------------------------------------------ Intrusive_list_column, calls
\* operator*=: returns [col, err]
Intrusive_list_times_eq(col, val) ==
  IF characteristic = 2
    THEN IF val % 2 = 0
           THEN IF isChain THEN [col |-> col, err |-> "invalid_argument"]
                           ELSE [col |-> <<>>, err |-> "none"]
           ELSE [col |-> col, err |-> "none"]
    ELSE LET realVal == get_value(val) IN
      IF realVal = 0
        THEN IF isChain THEN [col |-> col, err |-> "invalid_argument"]
                        ELSE [col |-> <<>>, err |-> "none"]
      ELSE IF realVal = 1 THEN [col |-> col, err |-> "none"]
      ELSE [col |-> scale_cells(col, realVal), err |-> "none"]

\* multiply_and_add(val, column): returns [col, zeroed, err]
Intrusive_list_multiply_and_add(val, target, source) ==
  IF characteristic = 2
    THEN IF val # 0
           THEN LET r == _add(target, source)
                IN [col |-> r.col, zeroed |-> r.zeroed, err |-> "none"]
           ELSE IF isChain
             THEN [col |-> target, zeroed |-> FALSE, err |-> "invalid_argument"]
             ELSE [col |-> _add(<<>>, source).col, zeroed |-> FALSE, err |-> "none"]
    ELSE _multiply_and_add(val, target, source)

\* multiply_and_add(column, val): returns [col, zeroed]
Intrusive_list_multiply_source_and_add(target, source, val) ==
  IF characteristic = 2
    THEN IF val # 0 THEN _add(target, source) ELSE [col |-> target, zeroed |-> FALSE]
    ELSE _multiply_source_and_add(target, source, val)

\* reorder: the rows are mapped, then column_.sort()
Intrusive_list_reorder(col, valueMap) ==
  list_sort([i \in 1..Len(col) |-> Cell(valueMap[col[i].row], col[i].element)])

\* clear(rowIndex): the first cell of that row is deleted
RECURSIVE Intrusive_list_clear(_, _)
Intrusive_list_clear(col, rowIndex) ==
  IF col = <<>> THEN <<>>
  ELSE IF Head(col).row = rowIndex THEN Tail(col)
  ELSE <<Head(col)>> \o Intrusive_list_clear(Tail(col), rowIndex)

\* ------------------------------------------------------------------ Vector_boundary_column
\* _clean_values
_clean_values(col, erased) == KeepRows(col, RowsOf(col) \ erased)

\* get_pivot: the cleared cells at the back are dropped; returns
\* [col, erased, pivot]
RECURSIVE Vector_get_pivot(_, _)
Vector_get_pivot(col, erased) ==
  IF col = <<>> THEN [col |-> col, erased |-> erased, pivot |-> -1]
  ELSE IF col[Len(col)].row \in erased
    THEN Vector_get_pivot(SubSeq(col, 1, Len(col) - 1), erased \ {col[Len(col)].row})
  ELSE [col |-> col, erased |-> erased, pivot |-> col[Len(col)].row]

\* reorder: the cleared cells are dropped, the rows mapped, the cells sorted
Vector_reorder(col, erased, valueMap) ==
  LET kept == _clean_values(col, erased)
  IN SortByRow([i \in 1..Len(kept) |-> Cell(valueMap[kept[i].row], kept[i].element)])

\* Vector_column::operator+= over Z2: the cells of a common row cancel
Vector_column_plus_eq(target, source) == Z2_set_add(target, source)

\* ------------------------------------------------------------------ columns: calls
Rows == 0..MaxRow

\* the column classes, with the coefficients they are used with: Z2, Z3 and
\* the multi-field of the primes 2 and 3
Configurations ==
  [kind : {"Set_column"}, characteristic : {3, 6}, isChain : {FALSE}]
  \cup [kind : {"Z2_set_column", "Vector_boundary_column"}, characteristic : {2},
        isChain : {FALSE}]
  \cup [kind : {"Z2_intrusive_set_column"}, characteristic : {2}, isChain : BOOLEAN]
  \cup [kind : {"Intrusive_list_column"}, characteristic : {2, 3, 6}, isChain : BOOLEAN]
  \cup [kind : {"Reduced_cell_list_column_with_row"}, characteristic : {3},
        isChain : {TRUE}]

\* the column with the given non-zero entries
ColumnOf(entries) ==
  LET rows == SortedSeq(DOMAIN entries)
  IN [i \in 1..Len(rows) |-> Cell(rows[i], entries[rows[i]])]

\* every well-formed column on Rows: sorted by row, no zero element
Columns(c) ==
  {ColumnOf(entries) : entries \in UNION {[R -> 1..(c - 1)] : R \in SUBSET Rows}}

\* two columns of a basis: neither is a multiple of the other
Independent(c, col1, col2) ==
  \A k \in 0..(c - 1) :
    /\ col1 # [i \in 1..Len(col2) |-> Cell(col2[i].row, (col2[i].element * k) % c)]
    /\ col2 # [i \in 1..Len(col1) |-> Cell(col1[i].row, (col1[i].element * k) % c)]

NoMatrix ==
  /\ matrix_ = <<>> /\ pivotToColumnIndex_ = <<>> /\ nextInsertIndex_ = 0
  /\ dimensions_ = <<>> /\ maxDim_ = -1 /\ barcode_ = <<>> /\ indexToBar_ = <<>>
  /\ representativeCycles_ = <<>> /\ birthToCycle_ = <<>> /\ boundaries = <<>>
  /\ addCount = 0 /\ status = "ok" /\ cyclesRequested = FALSE

InitColumns ==
  /\ NoMatrix
  /\ NoField
  /\ NoOverlay
  /\ lastCall = "none"
  /\ \E cfg \in Configurations :
       /\ kind = cfg.kind
       /\ characteristic = cfg.characteristic
       /\ isChain = cfg.isChain
  /\ column_ \in Columns(characteristic)
  /\ source_ \in Columns(characteristic)
  /\ isChain => /\ column_ # <<>>
                /\ source_ # <<>>
                /\ Independent(characteristic, column_, source_)
  /\ pivot_ \in (IF isChain THEN RowsOf(column_) ELSE {-1})
  /\ sourcePivot \in (IF isChain THEN RowsOf(source_) \ {pivot_} ELSE {-1})
  /\ erasedValues_ = {}
  /\ err = "none"
  /\ returned = "none"
  /\ lastVal = -1
  /\ snapshot = <<>>
  /\ addStreak = 0

\* the cells a reader of the column sees
Content(col, erased) == KeepRows(col, RowsOf(col) \ erased)

\* what a call other than += leaves in the history variables
NoAddition == snapshot' = <<>> /\ addStreak' = 0

\* column_ += source_; [col, swap]: the new cells, and whether the tracked
\* pivots of the two columns are exchanged
plus_eq_result ==
  CASE kind = "Set_column" ->
         [col |-> Set_column_plus_eq(column_, source_), swap |-> FALSE]
    [] kind = "Z2_set_column" ->
         [col |-> Z2_set_add(column_, source_), swap |-> FALSE]
    [] kind = "Z2_intrusive_set_column" ->
         LET sum == Z2_set_add(column_, source_)
         IN [col |-> sum, swap |-> isChain /\ pivot_ \notin RowsOf(sum)]
    [] kind = "Intrusive_list_column" ->
         LET r == _add(column_, source_)
         IN [col |-> r.col, swap |-> isChain /\ r.zeroed]
    [] kind = "Reduced_cell_list_column_with_row" ->
         LET sum == Reduced_cell_list_plus_eq(column_, source_)
         IN [col |-> sum, swap |-> pivot_ \notin RowsOf(sum)]
    [] kind = "Vector_boundary_column" ->
         [col |-> Vector_column_plus_eq(_clean_values(column_, erasedValues_), source_),
          swap |-> FALSE]

plus_eq ==
  /\ kind # "none"
  /\ column_' = plus_eq_result.col
  /\ pivot_' = IF plus_eq_result.swap THEN sourcePivot ELSE pivot_
  /\ sourcePivot' = IF plus_eq_result.swap THEN pivot_ ELSE sourcePivot
  /\ erasedValues_' = {}
  /\ IF addStreak = 1
       THEN snapshot' = snapshot /\ addStreak' = 2
       ELSE snapshot' = Content(column_, erasedValues_) /\ addStreak' = 1
  /\ err' = "none" /\ returned' = "none" /\ lastVal' = -1
  /\ lastCall' = "operator+="
  /\ UNCHANGED <<kind, characteristic, isChain, source_, matVars,
                 fieldVars, overlayVars, cyclesRequested>>

\* column_ *= val; [col, err]
times_eq_result(val) ==
  CASE kind = "Set_column" -> [col |-> Set_column_times_eq(column_, val), err |-> "none"]
    [] kind = "Z2_intrusive_set_column" -> [col |-> Z2_times_eq(column_, val), err |-> "none"]
    [] kind = "Intrusive_list_column" -> Intrusive_list_times_eq(column_, val)
    [] kind = "Reduced_cell_list_column_with_row" ->
         [col |-> Reduced_cell_list_times_eq(column_, val), err |-> "none"]

times_eq(val) ==
  /\ kind \in {"Set_column", "Z2_intrusive_set_column", "Intrusive_list_column",
               "Reduced_cell_list_column_with_row"}
  /\ column_' = times_eq_result(val).col
  /\ err' = times_eq_result(val).err
  /\ lastVal' = val
  /\ returned' = "none"
  /\ NoAddition
  /\ lastCall' = "operator*="
  /\ UNCHANGED <<kind, characteristic, isChain, source_, pivot_, sourcePivot,
                 erasedValues_, matVars,
                 fieldVars, overlayVars, cyclesRequested>>

\* column_.multiply_and_add(val, source_)
multiply_and_add(val) ==
  /\ kind = "Intrusive_list_column"
  /\ LET r == Intrusive_list_multiply_and_add(val, column_, source_)
     IN /\ column_' = r.col
        /\ err' = r.err
        /\ pivot_' = IF isChain /\ r.zeroed THEN sourcePivot ELSE pivot_
        /\ sourcePivot' = IF isChain /\ r.zeroed THEN pivot_ ELSE sourcePivot
  /\ lastVal' = val
  /\ returned' = "none"
  /\ NoAddition
  /\ lastCall' = "multiply_and_add(val, column)"
  /\ UNCHANGED <<kind, characteristic, isChain, source_, erasedValues_, matVars,
                 fieldVars, overlayVars, cyclesRequested>>

\* column_.multiply_and_add(source_, val)
multiply_source_and_add(val) ==
  /\ kind = "Intrusive_list_column"
  /\ LET r == Intrusive_list_multiply_source_and_add(column_, source_, val)
     IN /\ column_' = r.col
        /\ pivot_' = IF isChain /\ r.zeroed THEN sourcePivot ELSE pivot_
        /\ sourcePivot' = IF isChain /\ r.zeroed THEN pivot_ ELSE sourcePivot
  /\ err' = "none"
  /\ lastVal' = val
  /\ returned' = "none"
  /\ NoAddition
  /\ lastCall' = "multiply_and_add(column, val)"
  /\ UNCHANGED <<kind, characteristic, isChain, source_, erasedValues_, matVars,
                 fieldVars, overlayVars, cyclesRequested>>

\* column_.clear(rowIndex), boundary columns
clear(rowIndex) ==
  /\ ~isChain
  /\ kind \in {"Set_column", "Z2_set_column", "Intrusive_list_column",
               "Vector_boundary_column"}
  /\ column_' = CASE kind \in {"Set_column", "Z2_set_column"} -> set_erase(column_, rowIndex)
                  [] kind = "Intrusive_list_column" -> Intrusive_list_clear(column_, rowIndex)
                  [] kind = "Vector_boundary_column" -> column_
  /\ erasedValues_' = IF kind = "Vector_boundary_column"
                        THEN erasedValues_ \cup {rowIndex} ELSE erasedValues_
  /\ err' = "none" /\ returned' = "none" /\ lastVal' = -1
  /\ NoAddition
  /\ lastCall' = "clear"
  /\ UNCHANGED <<kind, characteristic, isChain, source_, pivot_, sourcePivot, matVars,
                 fieldVars, overlayVars, cyclesRequested>>

RowPermutations == {valueMap \in [Rows -> Rows] : \A r \in Rows : \E q \in Rows : valueMap[q] = r}

\* column_.reorder(valueMap), boundary columns
reorder(valueMap) ==
  /\ ~isChain
  /\ kind \in {"Set_column", "Z2_set_column", "Z2_intrusive_set_column",
               "Intrusive_list_column", "Vector_boundary_column"}
  /\ column_' = CASE kind \in {"Set_column", "Z2_set_column", "Z2_intrusive_set_column"} ->
                       set_reorder(column_, valueMap)
                  [] kind = "Intrusive_list_column" -> Intrusive_list_reorder(column_, valueMap)
                  [] kind = "Vector_boundary_column" ->
                       Vector_reorder(column_, erasedValues_, valueMap)
  /\ erasedValues_' = {}
  /\ err' = "none" /\ returned' = "none" /\ lastVal' = -1
  /\ NoAddition
  /\ lastCall' = "reorder"
  /\ UNCHANGED <<kind, characteristic, isChain, source_, pivot_, sourcePivot, matVars,
                 fieldVars, overlayVars, cyclesRequested>>

\* if (column_.empty()) return -1; return column_.back().get_row_index();
back_row(col) == IF col = <<>> THEN -1 ELSE col[Len(col)].row

\* column_.get_pivot(); [col, erased, pivot]
get_pivot_result ==
  IF kind = "Vector_boundary_column" THEN Vector_get_pivot(column_, erasedValues_)
  ELSE [col |-> column_, erased |-> erasedValues_,
        pivot |-> IF isChain THEN pivot_ ELSE back_row(column_)]

get_pivot ==
  /\ kind \in {"Set_column", "Z2_set_column", "Intrusive_list_column",
               "Vector_boundary_column"}
     \/ (kind = "Z2_intrusive_set_column" /\ isChain)
  /\ column_' = get_pivot_result.col
  /\ erasedValues_' = get_pivot_result.erased
  /\ returned' = get_pivot_result.pivot
  /\ err' = "none" /\ lastVal' = -1
  /\ NoAddition
  /\ lastCall' = "get_pivot"
  /\ UNCHANGED <<kind, characteristic, isChain, source_, pivot_, sourcePivot, matVars,
                 fieldVars, overlayVars, cyclesRequested>>

Values == 0..(characteristic - 1)

NextColumns ==
  \/ plus_eq
  \/ \E val \in Values : times_eq(val)
  \/ \E val \in Values : multiply_and_add(val)
  \/ \E val \in Values : multiply_source_and_add(val)
  \/ \E rowIndex \in Rows : clear(rowIndex)
  \/ \E valueMap \in RowPermutations : reorder(valueMap)
  \/ get_pivot

SpecColumns == InitColumns /\ [][NextColumns]_vars

\* the column classes instantiated over Z2
InitZ2Columns == InitColumns /\ characteristic = 2

SpecZ2Columns == InitZ2Columns /\ [][NextColumns]_vars

\* ------------------------------------------------------------------ claims: columns
\* the entry of a column at a row, 0 when the column has no cell there
ValueAt(col, rowIndex) ==
  IF rowIndex \in RowsOf(col) THEN col[find(col, rowIndex)].element ELSE 0

AddedOnce ==
  /\ lastCall = "operator+="
  /\ addStreak = 1
  /\ characteristic = 3
  /\ kind \in {"Set_column", "Intrusive_list_column", "Reduced_cell_list_column_with_row"}

\* C6: over Z_p with p > 2, target += source leaves at every row the sum
\* (old + source) mod p, the row being absent from the target exactly when
\* that sum is 0, for the set, the intrusive list and the row-linked list
\* columns.
C6_AdditionIsPerRowSum ==
  AddedOnce =>
    \A r \in Rows :
      LET sum == (ValueAt(snapshot, r) + ValueAt(source_, r)) % characteristic
      IN /\ ValueAt(column_, r) = sum
         /\ (r \in RowsOf(column_)) <=> (sum # 0)

\* C7: for two distinct Z2 columns a and b of the same class, a += b twice
\* leaves a with its original rows.
C7_AddingTwiceRestores ==
  (characteristic = 2 /\ addStreak = 2) =>
    RowsOf(Content(column_, erasedValues_)) = RowsOf(snapshot)

\* b was added twice to a, and b has a row of a and a row a does not have
C7_Witness ==
  /\ characteristic = 2
  /\ addStreak = 2
  /\ RowsOf(source_) \cap RowsOf(snapshot) # {}
  /\ RowsOf(source_) \ RowsOf(snapshot) # {}

\* C8: after any sequence of +=, *=, multiply_and_add in both orders,
\* clear(row) and reorder with a permutation, over Z2, Z_p or the multi-field,
\* the cells of a column are strictly increasing by row, without duplicate
\* and without zero-valued cell.
C8_ColumnWellFormed ==
  /\ \A i \in 1..Len(column_) : \A j \in 1..Len(column_) :
       i < j => column_[i].row < column_[j].row
  /\ \A i \in 1..Len(column_) : column_[i].element # 0

\* the largest row of the column holding a non-zero entry, -1 without one
LargestNonZeroRow ==
  LET seen == Content(column_, erasedValues_)
      nonZero == {seen[i].row : i \in {j \in 1..Len(seen) : seen[j].element # 0}}
  IN IF nonZero = {} THEN -1 ELSE Max(nonZero)

\* C9: get_pivot() of a boundary column returns the largest row with a
\* non-zero entry, -1 if there is none, also after clear(rowIndex), which
\* Vector_boundary_column records lazily.
C9_PivotIsLargestRow ==
  (lastCall = "get_pivot" /\ ~isChain) => returned = LargestNonZeroRow

\* a step that scales the chain column by a value congruent to 0
ScalesChainByZero ==
  /\ isChain
  /\ lastCall' \in {"operator*=", "multiply_and_add(val, column)"}
  /\ get_value(lastVal') = 0

\* C10: scaling a chain column by a value congruent to 0, with operator*= or
\* with multiply_and_add(val, column), fails with an invalid-argument error
\* for every chain column class, and the call does not empty the column.
C10_ChainNotScaledByZero ==
  [][ScalesChainByZero =>
       (err' = "invalid_argument" /\ (column_ # <<>> => column_' # <<>>))]_vars

\* ------------------------------------------------------------------ Shared_multi_field_element
MaxCharacteristic == 9
MaxOperand == 3

\* mpz_mod(r, n, d): the result is never negative, the sign of d is ignored
\* the remainder truncated towards zero, which keeps the sign of n
mpz_tdiv_r(n, d) == IF n < 0 THEN 0 - ((0 - n) % d) ELSE n % d

mpz_mod(n, d) == n % d

\* mpz_gcd(g, a, b), the result is never negative
RECURSIVE mpz_gcd(_, _)
mpz_gcd(a, b) == IF b = 0 THEN a ELSE mpz_gcd(b, a % b)

\* mpz_invert(inv, a, m) when a is invertible modulo m
\* the inverse of the opposite of a modulo m
mpz_invert_of_opposite(a, m) == CHOOSE y \in 0..(m - 1) : (a * y) % m = (m - 1) % m

mpz_invert(a, m) == CHOOSE y \in 0..(m - 1) : (a * y) % m = 1 % m

\* mpz_powm_ui(r, base, exp, mod)
RECURSIVE mpz_powm_ui(_, _, _)
mpz_powm_ui(base, exp, mod) ==
  IF exp = 0 THEN 1 % mod ELSE (mpz_powm_ui(base, exp - 1, mod) * (base % mod)) % mod

\* _is_prime(p)
_is_prime(p) == p > 1 /\ \A d \in 2..(p - 1) : p % d # 0

\* mpz_probab_prime_p(n, 25) # 0, exact on these sizes
mpz_probab_prime_p(n) == _is_prime(n)

\* mpz_nextprime(r, n): the least prime above n
mpz_nextprime(n) == CHOOSE q \in (n + 1)..(2 * n + 2) :
                      _is_prime(q) /\ \A r \in (n + 1)..(q - 1) : ~_is_prime(r)

\* the while loop of initialize: the primes from curr_prime up to maximum
RECURSIVE collect_primes(_, _)
collect_primes(curr_prime, maximum) ==
  IF curr_prime <= maximum
    THEN <<curr_prime>> \o collect_primes(mpz_nextprime(curr_prime), maximum)
    ELSE <<>>

RECURSIVE product(_)
product(ps) == IF ps = <<>> THEN 1 ELSE Head(ps) * product(Tail(ps))

\* the shared static members
Configuration ==
  [primes |-> primes_, product |-> productOfAllCharacteristics_, partials |-> partials_]

\* initialize(minimum, maximum): [primes, product, partials, err]
initialize_result(minimum, maximum) ==
  LET C == Configuration
      refused == [primes |-> C.primes, product |-> C.product, partials |-> C.partials,
                  err |-> "invalid_argument"]
  IN IF maximum < 2 THEN refused
     ELSE IF minimum > maximum THEN refused
     ELSE IF minimum = maximum /\ ~_is_prime(minimum) THEN refused
     ELSE LET curr_prime == IF mpz_probab_prime_p(minimum) THEN minimum
                            ELSE mpz_nextprime(minimum)
              found == collect_primes(curr_prime, maximum)
          IN IF found = <<>>
               THEN [primes |-> <<>>, product |-> C.product, partials |-> C.partials,
                     err |-> "invalid_argument"]
               ELSE LET all == product(found)
                    IN [primes |-> found, product |-> all,
                        partials |-> [i \in 1..Len(found) |->
                                        mpz_powm_ui(all \div found[i], found[i] - 1, all)],
                        err |-> "none"]

\* what a field call leaves of the Z2 element and of the results of earlier calls
FieldFrame ==
  UNCHANGED <<z2_element_, z2_other_, z2_inverse, z2_product, matVars, colVars, overlayVars, cyclesRequested>>

\* initialize(minimum, maximum), "called first before constructing the field
\* elements"
initialize(minimum, maximum) ==
  LET r == initialize_result(minimum, maximum) IN
  /\ element_ = -1
  /\ primes_' = r.primes
  /\ productOfAllCharacteristics_' = r.product
  /\ partials_' = r.partials
  /\ fieldErr' = r.err
  /\ inverse' = <<>>
  /\ lastCall' = "initialize"
  /\ UNCHANGED element_
  /\ FieldFrame

\* a call that ends by mpz_mod(element_, element_, productOfAllCharacteristics_)
\* with value in element_: a division by zero before the first initialize
reduce_into_element(value, call) ==
  /\ IF productOfAllCharacteristics_ = 0
       THEN /\ fieldErr' = "division_by_zero"
            /\ UNCHANGED element_
       ELSE /\ fieldErr' = "none"
            /\ element_' = mpz_mod(value, productOfAllCharacteristics_)
  /\ inverse' = <<>>
  /\ lastCall' = call
  /\ UNCHANGED <<primes_, productOfAllCharacteristics_, partials_>>
  /\ FieldFrame

\* Shared_multi_field_element(mpz_class element)
Shared_multi_field_element(v) == reduce_into_element(v, "Shared_multi_field_element")

\* operator=(mpz_class const value), and operator=(other) with the value of other
assign(v) == element_ # -1 /\ reduce_into_element(v, "operator=")

\* operator+=(f, mpz_class const v), and operator+=(f1, f2) with v = f2.element_
field_plus_eq(v) == element_ # -1 /\ reduce_into_element(element_ + v, "operator+=")

\* operator-=(f, mpz_class const v), and operator-=(f1, f2) with v = f2.element_
field_minus_eq(v) == element_ # -1 /\ reduce_into_element(element_ - v, "operator-=")

\* operator*=(f, mpz_class const v), and operator*=(f1, f2) with v = f2.element_
field_times_eq(v) == element_ # -1 /\ reduce_into_element(element_ * v, "operator*=")

\* the integer operands, and the values of the element operands: those built
\* from an integer under the current product
Operands ==
  ((0 - MaxOperand)..MaxOperand) \cup
    IF productOfAllCharacteristics_ = 0 THEN {}
    ELSE {mpz_mod(v, productOfAllCharacteristics_) : v \in (0 - MaxOperand)..MaxOperand}

multiplicativeID_ == 1

\* the loop of get_partial_multiplicative_identity: mult += partials_[idx] for
\* every characteristic dividing productOfCharacteristics
RECURSIVE add_partials(_, _, _)
add_partials(mult, idx, productOfCharacteristics) ==
  IF idx > Len(primes_) THEN mult
  ELSE add_partials(
         IF productOfCharacteristics % primes_[idx] = 0
           THEN mpz_mod(mult + partials_[idx], productOfAllCharacteristics_)
           ELSE mult,
         idx + 1, productOfCharacteristics)

\* get_partial_multiplicative_identity(productOfCharacteristics)
get_partial_multiplicative_identity(productOfCharacteristics) ==
  IF productOfCharacteristics = 0
    THEN mpz_mod(multiplicativeID_, productOfAllCharacteristics_)
    ELSE add_partials(0, 1, productOfCharacteristics)

\* mutant: the weight of a failed partial inverse is the product asked for
failed_partial_inverse_weight_is_product(productOfCharacteristics) == productOfCharacteristics

\* the second member of the pair returned when gcd(x, QS) = QS
failed_partial_inverse_weight(productOfCharacteristics) == multiplicativeID_

\* get_partial_inverse(productOfCharacteristics): [first, second]
get_partial_inverse_result(x, productOfCharacteristics) ==
  LET QR == mpz_gcd(x, productOfCharacteristics) IN
  IF QR = productOfCharacteristics
    THEN [first |-> 0, second |-> failed_partial_inverse_weight(productOfCharacteristics)]
    ELSE LET QT == productOfCharacteristics \div QR
             inv_qt == mpz_invert(x, QT)
             res == get_partial_multiplicative_identity(QT)
         IN [first |-> mpz_mod(res * inv_qt, productOfAllCharacteristics_), second |-> QT]

\* the products of some of the characteristics, the empty product left out
RECURSIVE PartialProducts(_)
PartialProducts(ps) ==
  IF ps = <<>> THEN {1}
  ELSE LET rest == PartialProducts(Tail(ps)) IN rest \cup {Head(ps) * q : q \in rest}

get_partial_inverse(productOfCharacteristics) ==
  /\ element_ # -1
  /\ productOfAllCharacteristics_ # 0
  /\ inverse' = get_partial_inverse_result(element_, productOfCharacteristics)
  /\ fieldErr' = "none"
  /\ lastVal' = productOfCharacteristics
  /\ lastCall' = "get_partial_inverse"
  /\ UNCHANGED <<primes_, productOfAllCharacteristics_, partials_, element_>>
  /\ UNCHANGED <<z2_element_, z2_other_, z2_inverse, z2_product, matVars, overlayVars, cyclesRequested>>
  /\ UNCHANGED <<kind, characteristic, isChain, column_, source_, pivot_, sourcePivot,
                 erasedValues_, err, returned, snapshot, addStreak>>

\* get_inverse(): get_partial_inverse(productOfAllCharacteristics_).first
get_inverse ==
  /\ element_ # -1
  /\ productOfAllCharacteristics_ # 0
  /\ inverse' = get_partial_inverse_result(element_, productOfAllCharacteristics_)
  /\ fieldErr' = "none"
  /\ lastCall' = "get_inverse"
  /\ UNCHANGED <<primes_, productOfAllCharacteristics_, partials_, element_>>
  /\ FieldFrame

\* ------------------------------------------------------------------ fields: calls
NextField ==
  \/ \E minimum \in 0..MaxCharacteristic : \E maximum \in 0..MaxCharacteristic :
       initialize(minimum, maximum)
  \/ \E v \in Operands : Shared_multi_field_element(v)
  \/ \E v \in Operands : assign(v)
  \/ \E v \in Operands : field_plus_eq(v)
  \/ \E v \in Operands : field_minus_eq(v)
  \/ \E v \in Operands : field_times_eq(v)
  \/ get_inverse
  \/ \E productOfCharacteristics \in PartialProducts(primes_) :
       get_partial_inverse(productOfCharacteristics)

SpecField == Init /\ [][NextField]_vars

\* ------------------------------------------------------------------ Z2_field_element
\* what the calls on Z2 elements leave alone
Z2Frame ==
  UNCHANGED <<primes_, productOfAllCharacteristics_, partials_, element_, inverse,
              fieldErr, matVars, colVars, overlayVars, cyclesRequested>>

\* Z2_field_element(int element): element_(element % 2), a bool
Z2_value(element) == IF element % 2 # 0 THEN 1 ELSE 0

\* operator+= and operator-=: element_ = (element_ != f.element_)
Z2_plus(e, f) == IF e # f THEN 1 ELSE 0

\* operator*=: element_ = (element_ && f.element_)
Z2_times(e, f) == IF e # 0 /\ f # 0 THEN 1 ELSE 0

\* get_inverse(): element_ ? Z2_field_element() : Z2_field_element(1)
Z2_get_inverse_result(e) == IF e # 0 THEN 0 ELSE Z2_value(1)

\* get_multiplicative_identity(): Z2_field_element(1)
Z2_get_multiplicative_identity == Z2_value(1)

\* a call that leaves x and f in the two elements
Z2_call(x, f, call) ==
  /\ z2_element_' = x
  /\ z2_other_' = f
  /\ lastCall' = call
  /\ UNCHANGED <<z2_inverse, z2_product>>
  /\ Z2Frame

\* x = Z2_field_element(element)
Z2_field_element(element) == Z2_call(Z2_value(element), z2_other_, "Z2_field_element")

\* f = Z2_field_element(element), a second element
Z2_other_element(element) == Z2_call(z2_element_, Z2_value(element), "Z2_field_element f")

\* x += f
Z2_element_plus_eq == Z2_call(Z2_plus(z2_element_, z2_other_), z2_other_, "operator+=")

\* x -= f
Z2_element_minus_eq == Z2_call(Z2_plus(z2_element_, z2_other_), z2_other_, "operator-=")

\* x *= f
Z2_element_times_eq == Z2_call(Z2_times(z2_element_, z2_other_), z2_other_, "operator*=")

\* x = f
Z2_assign == Z2_call(z2_other_, z2_other_, "operator=")

\* swap(x, f)
Z2_swap == Z2_call(z2_other_, z2_element_, "swap")

\* x.get_inverse()
Z2_get_inverse ==
  /\ z2_inverse' = Z2_get_inverse_result(z2_element_)
  /\ lastCall' = "get_inverse"
  /\ UNCHANGED <<z2_element_, z2_other_, z2_product>>
  /\ Z2Frame

\* x * x.get_inverse(): operator* works on a copy of x
Z2_times_inverse ==
  /\ z2_inverse' = Z2_get_inverse_result(z2_element_)
  /\ z2_product' = Z2_times(z2_element_, z2_inverse')
  /\ lastCall' = "operator*"
  /\ UNCHANGED <<z2_element_, z2_other_>>
  /\ Z2Frame

NextZ2Field ==
  \/ \E element \in Operands : Z2_field_element(element)
  \/ \E element \in Operands : Z2_other_element(element)
  \/ Z2_element_plus_eq
  \/ Z2_element_minus_eq
  \/ Z2_element_times_eq
  \/ Z2_assign
  \/ Z2_swap
  \/ Z2_get_inverse
  \/ Z2_times_inverse

SpecZ2Field == Init /\ [][NextZ2Field]_vars

\* ------------------------------------------------------------------ Id_to_index_overlay
\* over a matrix of boundary type; columnOrder stands for matrix_: the face
\* IDs of its columns by position
MaxPositions == 3

FaceIDs == 0..(MaxPositions - 1)

\* the overlay as one value
Overlay ==
  [idToIndex_ |-> idToIndex_, nextIndex_ |-> nextIndex_, columnOrder |-> columnOrder,
   status |-> overlayStatus, reached |-> reached, returned |-> swapReturned]

\* Id_to_index_overlay(colSettings): _initialize_map(0), nextIndex_(0)
EmptyOverlay ==
  [idToIndex_ |-> <<>>, nextIndex_ |-> 0, columnOrder |-> <<>>,
   status |-> "ok", reached |-> -1, returned |-> -1]

\* the IDs _id_to_index gives an index for: keys of the map, entries of the
\* vector other than -1
MappedIDs(map) == {id \in DOMAIN map : map[id] # -1}

\* vector: resize(id + 1, -1) or push_back where needed, then operator[](id) = idx
set_at(vector, id, idx) ==
  [i \in (DOMAIN vector) \cup (0..id) |->
     IF i = id THEN idx ELSE IF i \in DOMAIN vector THEN vector[i] ELSE -1]

\* idToIndex_->emplace(id, idx), or idToIndex_->operator[](id) = idx
map_id(map, id, idx) ==
  IF has_map_column_container THEN emplace(map, id, idx) ELSE set_at(map, id, idx)

\* idToIndex_->erase(id), or idToIndex_->operator[](id) = -1
unmap_id(map, id) ==
  IF has_map_column_container THEN erase(map, id) ELSE set_at(map, id, -1)

\* std::swap(idToIndex_->at(id1), idToIndex_->at(id2))
swap_at(map, id1, id2) == [map EXCEPT ![id1] = map[id2], ![id2] = map[id1]]

\* matrix_.vine_swap(pos): the columns at positions pos and pos + 1 trade places
swap_columns(order, pos) ==
  [order EXCEPT ![pos + 1] = order[pos + 2], ![pos + 2] = order[pos + 1]]

\* a throw, or a step the language leaves undefined, out of the state o
thrown(o, what) == [o EXCEPT !.status = what]

\* insert_boundary(boundary, dim)
overlay_insert_boundary(o) ==
  [o EXCEPT !.columnOrder = Append(@, o.nextIndex_),
            !.idToIndex_ = map_id(@, o.nextIndex_, o.nextIndex_),
            !.nextIndex_ = @ + 1]

\* insert_boundary(faceIndex, boundary, dim)
overlay_insert_boundary_at(o, faceIndex) ==
  IF gudhi_debug /\ faceIndex \in MappedIDs(o.idToIndex_)
    THEN thrown(o, "invalid_argument")
    ELSE [o EXCEPT !.columnOrder = Append(@, faceIndex),
                   !.idToIndex_ = map_id(@, faceIndex, o.nextIndex_),
                   !.nextIndex_ = @ + 1]

\* indexToID of remove_maximal_face: value-initialised, then filled from idToIndex_
indexToID(map, size) ==
  [pos \in 0..(size - 1) |->
     LET ids == {id \in MappedIDs(map) : map[id] = pos}
     IN IF ids = {} THEN 0 ELSE Max(ids)]

\* the loop of remove_maximal_face from position curr on; toID was filled
\* before the loop and is not updated by it
RECURSIVE swap_to_last(_, _, _)
swap_to_last(o, toID, curr) ==
  IF curr >= o.nextIndex_ THEN o
  ELSE LET swapped == [o EXCEPT !.columnOrder = swap_columns(@, curr)]
       IN IF {toID[curr], toID[curr + 1]} \subseteq DOMAIN o.idToIndex_
            THEN swap_to_last([swapped EXCEPT !.idToIndex_ =
                                 swap_at(@, toID[curr], toID[curr + 1])],
                              toID, curr + 1)
            ELSE thrown(swapped, "out_of_range")

\* remove_maximal_face(faceID)
overlay_remove_maximal_face(o, faceID) ==
  LET map == o.idToIndex_
      toID == indexToID(map, o.nextIndex_)
      swapped == swap_to_last([o EXCEPT !.nextIndex_ = @ - 1], toID, map[faceID])
      removed == [swapped EXCEPT
                    !.columnOrder = SubSeq(@, 1, Len(@) - 1),
                    !.reached = swapped.idToIndex_[faceID]]
  IN IF \E id \in MappedIDs(map) : map[id] >= o.nextIndex_
       THEN thrown(o, "undefined_behaviour")
     ELSE IF swapped.status # "ok" THEN swapped
     ELSE IF gudhi_debug /\ removed.reached # removed.nextIndex_
       THEN thrown(removed, "logic_error")
     ELSE [removed EXCEPT !.idToIndex_ = unmap_id(@, faceID)]

\* remove_last()
overlay_remove_last(o) ==
  LET map == o.idToIndex_
      last == o.nextIndex_ - 1
      dropped == [o EXCEPT !.columnOrder = SubSeq(@, 1, Len(@) - 1),
                           !.nextIndex_ = last]
  IN IF DOMAIN map = {} THEN o
     ELSE IF o.nextIndex_ = 0 THEN thrown(o, "undefined_behaviour")
     ELSE IF has_map_column_container
       THEN IF \E id \in DOMAIN map : map[id] = last
              THEN [dropped EXCEPT !.idToIndex_ =
                      erase(@, CHOOSE id \in DOMAIN map : map[id] = last)]
              ELSE thrown(dropped, "undefined_behaviour")
     ELSE IF MappedIDs(map) = {} THEN thrown(dropped, "undefined_behaviour")
     ELSE IF gudhi_debug /\ map[Max(MappedIDs(map))] # last
       THEN thrown(dropped, "logic_error")
     ELSE [dropped EXCEPT !.idToIndex_ = set_at(@, Max(MappedIDs(map)), -1)]

\* vine_swap(faceID1, faceID2); change is what matrix_.vine_swap(first) answers
overlay_vine_swap(o, faceID1, faceID2, change) ==
  LET first == Min({o.idToIndex_[faceID1], o.idToIndex_[faceID2]})
  IN [o EXCEPT !.columnOrder = swap_columns(@, first),
               !.idToIndex_ = swap_at(@, faceID1, faceID2),
               !.returned = IF change THEN faceID1 ELSE faceID2]

\* reset(colSettings): matrix_.reset(colSettings); nextIndex_ = 0
overlay_reset(o) == [o EXCEPT !.columnOrder = <<>>, !.nextIndex_ = 0]

\* "It is assumed that the PosIdx of both only differs by one."
Contiguous(o, faceID1, faceID2) ==
  /\ {faceID1, faceID2} \subseteq MappedIDs(o.idToIndex_)
  /\ o.idToIndex_[faceID1] - o.idToIndex_[faceID2] \in {-1, 1}
  /\ o.idToIndex_[faceID1] < o.nextIndex_
  /\ o.idToIndex_[faceID2] < o.nextIndex_

\* a call leaves the overlay as new, and the new overlay built since the
\* last reset as newTwin; reached and swapReturned are those of the last call
OverlayCall(new, newTwin, call) ==
  /\ overlayStatus = "ok"
  /\ idToIndex_' = new.idToIndex_
  /\ nextIndex_' = new.nextIndex_
  /\ columnOrder' = new.columnOrder
  /\ overlayStatus' = new.status
  /\ reached' = IF call = "remove_maximal_face" THEN new.reached ELSE -1
  /\ swapReturned' = IF call = "vine_swap" THEN new.returned ELSE -1
  /\ twin' = newTwin
  /\ lastCall' = call
  /\ UNCHANGED <<has_map_column_container, gudhi_debug, matVars, colVars,
                 fieldVars, cyclesRequested>>

insert_boundary_next ==
  /\ nextIndex_ < MaxPositions
  /\ nextIndex_ \notin MappedIDs(idToIndex_) \/ twin # <<>>
  /\ twin # <<>> => twin.nextIndex_ \notin MappedIDs(twin.idToIndex_)
  /\ OverlayCall(overlay_insert_boundary(Overlay),
                 IF twin = <<>> THEN <<>> ELSE overlay_insert_boundary(twin),
                 "insert_boundary")

insert_boundary_at(faceIndex) ==
  /\ nextIndex_ < MaxPositions
  /\ faceIndex \notin MappedIDs(idToIndex_) \/ twin # <<>>
  /\ twin # <<>> => faceIndex \notin MappedIDs(twin.idToIndex_)
  /\ OverlayCall(overlay_insert_boundary_at(Overlay, faceIndex),
                 IF twin = <<>> THEN <<>>
                 ELSE overlay_insert_boundary_at(twin, faceIndex),
                 "insert_boundary(faceIndex)")

remove_maximal_face(faceID) ==
  /\ faceID \in MappedIDs(idToIndex_)
  /\ twin # <<>> => faceID \in MappedIDs(twin.idToIndex_)
  /\ OverlayCall(overlay_remove_maximal_face(Overlay, faceID),
                 IF twin = <<>> THEN <<>>
                 ELSE overlay_remove_maximal_face(twin, faceID),
                 "remove_maximal_face")

remove_last ==
  OverlayCall(overlay_remove_last(Overlay),
              IF twin = <<>> THEN <<>> ELSE overlay_remove_last(twin),
              "remove_last")

vine_swap(faceID1, faceID2) ==
  /\ Contiguous(Overlay, faceID1, faceID2)
  /\ twin # <<>> => Contiguous(twin, faceID1, faceID2)
  /\ \E change \in BOOLEAN :
       OverlayCall(overlay_vine_swap(Overlay, faceID1, faceID2, change),
                   IF twin = <<>> THEN <<>>
                   ELSE overlay_vine_swap(twin, faceID1, faceID2, change),
                   "vine_swap")

reset == OverlayCall(overlay_reset(Overlay), EmptyOverlay, "reset")

InitOverlay ==
  /\ NoMatrix /\ NoColumn /\ NoField
  /\ has_map_column_container \in BOOLEAN
  /\ gudhi_debug \in BOOLEAN
  /\ idToIndex_ = <<>> /\ nextIndex_ = 0 /\ columnOrder = <<>>
  /\ reached = -1 /\ swapReturned = -1 /\ overlayStatus = "ok" /\ twin = <<>>
  /\ lastCall = "none"

NextOverlay ==
  \/ insert_boundary_next
  \/ \E faceIndex \in FaceIDs : insert_boundary_at(faceIndex)
  \/ \E faceID \in FaceIDs : remove_maximal_face(faceID)
  \/ remove_last
  \/ \E faceID1 \in FaceIDs : \E faceID2 \in FaceIDs : vine_swap(faceID1, faceID2)
  \/ reset

SpecOverlay == InitOverlay /\ [][NextOverlay]_vars

\* ------------------------------------------------------------------ representative cycles: reads
\* if (representativeCycles_.empty()) update_representative_cycles();
cycles_if_empty ==
  IF representativeCycles_ = <<>>
    THEN update_cycles_loop(matrix_, pivotToColumnIndex_, nextInsertIndex_, 0,
           [cycles |-> <<>>, b2c |-> [i \in 1..nextInsertIndex_ |-> -1], st |-> "ok"])
    ELSE [cycles |-> representativeCycles_, b2c |-> birthToCycle_, st |-> "ok"]

\* get_representative_cycles()
get_representative_cycles ==
  /\ status = "ok"
  /\ representativeCycles_' = cycles_if_empty.cycles
  /\ birthToCycle_' = cycles_if_empty.b2c
  /\ status' = cycles_if_empty.st
  /\ cyclesRequested' = TRUE
  /\ lastCall' = "get_representative_cycles"
  /\ UNCHANGED <<matrix_, pivotToColumnIndex_, nextInsertIndex_, dimensions_, maxDim_,
                 barcode_, indexToBar_, boundaries, addCount, colVars,
                 fieldVars, overlayVars>>

\* get_representative_cycle(bar): representativeCycles_[birthToCycle_[bar.birth]],
\* a read out of the vectors when the birth has no cycle there
get_representative_cycle(bar) ==
  /\ status = "ok"
  /\ representativeCycles_' = cycles_if_empty.cycles
  /\ birthToCycle_' = cycles_if_empty.b2c
  /\ status' = IF cycles_if_empty.st # "ok" THEN cycles_if_empty.st
               ELSE IF /\ bar.birth + 1 \in DOMAIN cycles_if_empty.b2c
                       /\ cycles_if_empty.b2c[bar.birth + 1] # -1
                 THEN "ok"
               ELSE "undefined_behaviour"
  /\ lastCall' = "get_representative_cycle"
  /\ UNCHANGED <<matrix_, pivotToColumnIndex_, nextInsertIndex_, dimensions_, maxDim_,
                 barcode_, indexToBar_, boundaries, addCount, colVars,
                 fieldVars, overlayVars, cyclesRequested>>

\* any valid filtration, the representative cycles computed and read at any point
NextCycles ==
  \/ \E boundary \in SUBSET FaceIndices :
       /\ nextInsertIndex_ < MaxFaces
       /\ ValidBoundary(boundary)
       /\ insert_boundary(boundary)
  \/ update_representative_cycles
  \/ get_representative_cycles
  \/ \E bar \in Range(barcode_) : get_representative_cycle(bar)

SpecCycles == Init /\ [][NextCycles]_vars

\* ------------------------------------------------------------------ Vector_boundary_column: rows
\* the rows in which a cell of the column is linked, with row access: a cell
\* is linked when it is stored and unlinked by _delete_cell, which clear(rowIndex)
\* does not call (_clean_values and reorder do)
linked_rows(col) == RowsOf(col)

\* Vector_boundary_column::is_non_zero: FALSE for a row in erasedValues_,
\* otherwise whether the column stores a cell at that row
is_non_zero(col, erased, rowIndex) ==
  IF rowIndex \in erased THEN FALSE ELSE rowIndex \in RowsOf(col)

\* ------------------------------------------------------------------ chain matrix: copies
\* copy constructor: pivotToColumnIndex_, nextInsertIndex_ and maxDim_ are
\* copied, every column is built again from its index, its cells and its
\* dimension (a chain column built from cells tracks its largest row as
\* pivot and has no paired column), and dimensions_ is left empty. The
\* barcode is copied by the pairing base class.
copy_constructor(T) ==
  [T EXCEPT !.m = [c \in DOMAIN T.m |->
                     [rows |-> T.m[c].rows, pivot |-> new_chain_pivot(T.m[c].rows),
                      dim |-> T.m[c].dim, pair |-> -1]],
            !.dims = <<>>]

\* move constructor: every member is moved but dimensions_, left empty
move_constructor(T) == [T EXCEPT !.dims = <<>>]

\* ------------------------------------------------------------------ Id_to_index_overlay: assignment
\* An overlay of boundary type holds a pointer to a dictionary allocated by
\* its constructor: [dictionary |-> the dictionary pointed to, nextIndex_].
\* operator=(other): matrix_ and nextIndex_ are copied and
\* idToIndex_ = other.idToIndex_, the pointer
overlay_assign(this, other) ==
  [this EXCEPT !.dictionary = other.dictionary, !.nextIndex_ = other.nextIndex_]

\* ~Id_to_index_overlay: delete idToIndex_; the dictionary released
overlay_destructor(this) == this.dictionary

\* ------------------------------------------------------------------ claims: fields
\* the shared configuration is the one initialize(2, 7) builds, and the inverse
\* of an element coprime to 210 was asked for
InverseOfUnitAsked ==
  /\ lastCall = "get_inverse"
  /\ primes_ = <<2, 3, 5, 7>>
  /\ productOfAllCharacteristics_ = 210
  /\ element_ > 0
  /\ mpz_gcd(element_, 210) = 1

\* C11: after initialize(2, 7), primes 2, 3, 5, 7 and product 210, for every
\* non-zero element x with gcd(x, 210) = 1, x * x.get_inverse() is 1 modulo 210.
C11_InverseTimesElementIsOne ==
  InverseOfUnitAsked =>
    mpz_mod(element_ * inverse.first, productOfAllCharacteristics_) = 1

\* the inverse of 11, which is not its own inverse modulo 210, was asked for
C11_Witness == InverseOfUnitAsked /\ element_ = 11 /\ inverse.first # 11

\* get_partial_inverse(P) was asked for an element invertible modulo no prime
\* factor of P
FailedPartialInverseAsked ==
  /\ lastCall = "get_partial_inverse"
  /\ mpz_gcd(element_, lastVal) = lastVal

\* C12, as stated: get_partial_inverse(P) on an element x with gcd(x, P) = P
\* returns the zero element with a weight equal to the full product of the
\* characteristics.
C12_AsStated ==
  FailedPartialInverseAsked =>
    inverse = [first |-> 0, second |-> productOfAllCharacteristics_]

\* C12, amended: get_partial_inverse(P) on an element x with gcd(x, P) = P
\* returns the zero element with the weight 1, the multiplicative identity,
\* whatever P and the full product are.
C12_FailedPartialInverse ==
  FailedPartialInverseAsked => inverse = [first |-> 0, second |-> 1]

\* a non-zero element of the multi-field of product 210 is a multiple of P = 6
C12_Witness ==
  /\ FailedPartialInverseAsked
  /\ productOfAllCharacteristics_ = 210
  /\ lastVal = 6
  /\ element_ # 0

\* the interval [minimum, maximum] holds no prime
NoPrimeIn(minimum, maximum) == \A q \in minimum..maximum : ~_is_prime(q)

\* C13: initialize(min, max) on an interval without prime fails with an
\* invalid-argument error and leaves primes_, productOfAllCharacteristics_ and
\* partials_ as they were before the call.
C13_FailedInitializeKeepsConfiguration ==
  [][\A minimum \in 0..MaxCharacteristic : \A maximum \in 0..MaxCharacteristic :
       (initialize(minimum, maximum) /\ NoPrimeIn(minimum, maximum)) =>
         /\ fieldErr' = "invalid_argument"
         /\ UNCHANGED <<primes_, productOfAllCharacteristics_, partials_>>]_vars

\* C14: after a successful initialize, the value of an element lies in [0, M),
\* M the product of the characteristics, after any sequence of constructions,
\* assignments, +=, -= and *= with element or integer operands, negative
\* integers included.
C14_ElementIsReduced ==
  element_ # -1 =>
    /\ productOfAllCharacteristics_ > 0
    /\ element_ \in 0..(productOfAllCharacteristics_ - 1)

\* a subtraction left the largest value of the multi-field of product 210
C14_Witness ==
  /\ lastCall = "operator-="
  /\ productOfAllCharacteristics_ = 210
  /\ element_ = 209

\* C15: for the Z2 element x = 1, x.get_inverse() is 1, so that
\* x * x.get_inverse() equals get_multiplicative_identity().
C15_InverseOfOne ==
  (lastCall = "operator*" /\ z2_element_ = 1) =>
    /\ z2_inverse = 1
    /\ z2_product = Z2_get_multiplicative_identity

\* ------------------------------------------------------------------ claims: overlay
\* C16: after remove_maximal_face(faceID) on a matrix of boundary type, faceID
\* is no longer mapped, every face at an earlier position keeps its position,
\* every face at a later position moves down by exactly one, and just before
\* its removal faceID was mapped to the last position.
C16_RemovedFaceLeavesOthersInOrder ==
  [][\A faceID \in FaceIDs :
       remove_maximal_face(faceID) =>
         /\ overlayStatus' = "ok"
         /\ reached' = nextIndex_'
         /\ MappedIDs(idToIndex_') = MappedIDs(idToIndex_) \ {faceID}
         /\ \A id \in MappedIDs(idToIndex_) \ {faceID} :
              idToIndex_'[id] = IF idToIndex_[id] < idToIndex_[faceID]
                                  THEN idToIndex_[id]
                                  ELSE idToIndex_[id] - 1]_vars

\* C17: vine_swap(faceID1, faceID2) returns the ID of the column that is,
\* after the swap, at the position max(pos1, pos2).
C17_SwapReturnsFaceAtLaterPosition ==
  [][\A faceID1 \in FaceIDs : \A faceID2 \in FaceIDs :
       vine_swap(faceID1, faceID2) =>
         /\ swapReturned' \in MappedIDs(idToIndex_')
         /\ idToIndex_'[swapReturned'] =
              Max({idToIndex_[faceID1], idToIndex_[faceID2]})]_vars

\* the ID -> index pairs of a map
Mapping(map) == [id \in MappedIDs(map) |-> map[id]]

\* C20: reset(colSettings) leaves the overlay as a newly constructed empty
\* one: no face ID is mapped any more, and any insertions, swaps and removals
\* made after it give the mapping they give on a new overlay.
C20_ResetGivesNewOverlay ==
  twin # <<>> => Mapping(idToIndex_) = Mapping(twin.idToIndex_)

\* ------------------------------------------------------------------ claims: source of an addition
\* C18: multiply_source_and_add_to(coefficient, source, target) with a source
\* other than the target leaves the source column unmodified: its cells and
\* their values and, for chain columns, its pivot.
C18_SourceColumnUnmodified ==
  [][lastCall' = "multiply_and_add(column, val)" =>
       (source_' = source_ /\ sourcePivot' = sourcePivot)]_vars

\* ------------------------------------------------------------------ claims: representative cycles
\* C19: once get_representative_cycles() has been called, a later
\* get_representative_cycles() or get_representative_cycle(bar) returns the
\* cycles as they were computed, until update_representative_cycles() is
\* called: a read never refreshes them.
C19_CyclesNotRefreshedImplicitly ==
  [][(/\ cyclesRequested
      /\ lastCall' \in {"get_representative_cycles", "get_representative_cycle"}) =>
       UNCHANGED <<representativeCycles_, birthToCycle_>>]_vars

\* ------------------------------------------------------------------ claims: chain matrix
\* the reduction insert_boundary(boundary) runs on the current matrix
ReductionOf(boundary) ==
  _reduce_loops(matrix_, pivotToColumnIndex_, 1, boundary, <<>>, <<>>, {})

\* the unpaired columns the reduction of boundary uses, in the order of use
UsedInF(boundary) == IF boundary = {} THEN <<>> ELSE ReductionOf(boundary).F

\* the step inserts a new unpaired column, with a new essential bar
InsertedUnpaired ==
  /\ matrix_'[nextInsertIndex_].pair = -1
  /\ Len(barcode_') = Len(barcode_) + 1
  /\ barcode_'[Len(barcode_')].birth = nextInsertIndex_
  /\ barcode_'[Len(barcode_')].death = -1

\* the step inserts a new column paired with column chain_fp, whose bar gets
\* the new index as its death
InsertedPairedWith(chain_fp) ==
  /\ matrix_'[nextInsertIndex_].pair = chain_fp
  /\ matrix_'[chain_fp].pair = nextInsertIndex_
  /\ Len(barcode_') = Len(barcode_)
  /\ barcode_'[indexToBar_[matrix_[chain_fp].pivot]].death = nextInsertIndex_

\* C21 as stated: when the reduction uses no unpaired column the new column is
\* inserted unpaired as a new essential bar; otherwise it is paired with the
\* unpaired column used last in the reduction, whose bar gets the new index as
\* its death.
C21_AsStated ==
  [][\A boundary \in SUBSET FaceIndices :
       (insert_boundary(boundary) /\ status' = "ok") =>
         LET F == UsedInF(boundary)
         IN IF F = <<>> THEN InsertedUnpaired
                        ELSE InsertedPairedWith(F[Len(F)])]_vars

\* C21, as the code computes it: when the reduction uses no unpaired column
\* the new column is inserted unpaired as a new essential bar; otherwise it is
\* paired with the unpaired column used first in the reduction (the one with
\* the largest pivot), whose bar gets the new index as its death.
C21_PairedWithFirstUsedF ==
  [][\A boundary \in SUBSET FaceIndices :
       (insert_boundary(boundary) /\ status' = "ok") =>
         LET F == UsedInF(boundary)
         IN IF F = <<>> THEN InsertedUnpaired
                        ELSE InsertedPairedWith(F[1])]_vars

\* the last face inserted has two faces in its boundary, is paired with the
\* later of them, and the earlier one is still unpaired: the reduction used
\* two unpaired columns
C21_Witness ==
  /\ status = "ok"
  /\ lastCall = "insert_boundary"
  /\ nextInsertIndex_ > 0
  /\ LET n == nextInsertIndex_ - 1
     IN /\ Cardinality(boundaries[n]) = 2
        /\ matrix_[n].pair = Max(boundaries[n])
        /\ matrix_[Min(boundaries[n])].pair = -1

\* the column with pivot i
ColumnWithPivot(i) == matrix_[pivotToColumnIndex_[i]]

\* the column with pivot i is the earlier (resp. later) end of a pair
EarlierEndOfPair(i) == ColumnWithPivot(i).pair # -1 /\ i < ColumnWithPivot(i).pair
LaterEndOfPair(i) == ColumnWithPivot(i).pair # -1 /\ i > ColumnWithPivot(i).pair

\* a cycle is stored for the column with pivot i, and it is the column's list
\* of row indices
CycleStoredFor(i) ==
  /\ birthToCycle_[i + 1] # -1
  /\ birthToCycle_[i + 1] + 1 \in DOMAIN representativeCycles_
  /\ representativeCycles_[birthToCycle_[i + 1] + 1] = SortedSeq(ColumnWithPivot(i).rows)

\* the cycles stored are those of the columns with a pivot in kept, one each
CyclesStoredExactlyFor(kept) ==
  /\ \A i \in 0..(nextInsertIndex_ - 1) :
       IF i \in kept THEN CycleStoredFor(i) ELSE birthToCycle_[i + 1] = -1
  /\ Len(representativeCycles_) = Cardinality(kept)

\* C22 as stated: update_representative_cycles() stores a cycle, the column's
\* list of row indices, for every column that is a pivot owner and is not the
\* earlier end of a pair, and for no other column.
C22_AsStated ==
  (status = "ok" /\ lastCall = "update_representative_cycles") =>
    CyclesStoredExactlyFor({i \in 0..(nextInsertIndex_ - 1) : ~EarlierEndOfPair(i)})

\* C22, as the code computes it: update_representative_cycles() stores a
\* cycle, the column's list of row indices, for every column that is a pivot
\* owner and is not the later end of a pair (unpaired, or the birth of a
\* pair), and for no other column.
C22_CyclesOfBirthColumns ==
  (status = "ok" /\ lastCall = "update_representative_cycles") =>
    CyclesStoredExactlyFor({i \in 0..(nextInsertIndex_ - 1) : ~LaterEndOfPair(i)})

\* cycles were computed on a matrix with an unpaired column and a pair: the
\* earlier end of the pair has a cycle and the later end has none
C22_Witness ==
  /\ status = "ok"
  /\ lastCall = "update_representative_cycles"
  /\ \E i \in 0..(nextInsertIndex_ - 1) : ColumnWithPivot(i).pair = -1
  /\ \E i \in 0..(nextInsertIndex_ - 1) :
       /\ EarlierEndOfPair(i)
       /\ birthToCycle_[i + 1] # -1
       /\ birthToCycle_[ColumnWithPivot(i).pair + 1] = -1

\* the matrix state T has the barcode (as a set of bars), the columns with
\* their pairing, the pivot-to-column map and the number of columns of the
\* current state
RestoredBy(T) ==
  /\ T.st = "ok"
  /\ Range(T.bars) = Range(barcode_)
  /\ DOMAIN T.m = DOMAIN matrix_
  /\ \A c \in DOMAIN matrix_ : T.m[c].pair = matrix_[c].pair
  /\ T.p = pivotToColumnIndex_
  /\ T.n = nextInsertIndex_

\* C23: insert_boundary(b) immediately followed by erase_last() restores the
\* barcode (as a set of bars), every remaining column's paired/unpaired status
\* and partner, the pivot-to-column map and get_number_of_columns() to their
\* values before the insertion.
C23_InsertThenEraseRestores ==
  [][\A boundary \in SUBSET FaceIndices :
       (insert_boundary(boundary) /\ status' = "ok") =>
         \A emptyRead \in {"stop", "corrupt"} :
           RestoredBy(erase_last_state(MatrixState', emptyRead))]_vars

\* any valid filtration, with column additions at any point
NextAdditions ==
  \/ \E boundary \in SUBSET FaceIndices :
       /\ nextInsertIndex_ < MaxFaces
       /\ ValidBoundary(boundary)
       /\ insert_boundary(boundary)
  \/ \E s \in DOMAIN matrix_ : \E t \in (DOMAIN matrix_) \ {s} : add_to(s, t)

SpecAdditions == Init /\ [][NextAdditions]_vars

\* no addition has emptied a column: the columns stay linearly independent
\* under insert_boundary and add_to, so the sum of two of them is never zero
NoColumnEmptied ==
  status = "ok" => \A c \in DOMAIN matrix_ : matrix_[c].rows # {}

\* C24: after any sequence of insert_boundary and add_to calls in which no
\* addition empties the target column, the tracked pivot of every chain column
\* is a row index present in that column.
C24_TrackedPivotInColumn ==
  status = "ok" => \A c \in DOMAIN matrix_ : matrix_[c].pivot \in matrix_[c].rows

\* C25: after any sequence of insert_boundary calls on a valid filtration,
\* for every pair of columns (g, h) in which h was inserted later, the Z2 sum
\* of the original boundaries of the faces listed in column h is the current
\* content of column g.
C25_BoundaryOfDeathIsBirth ==
  status = "ok" =>
    \A h \in DOMAIN matrix_ :
      LET g == matrix_[h].pair
      IN (g # -1 /\ g < h) => boundary_of_chain(matrix_[h].rows) = matrix_[g].rows

\* two pairs are present, and the later column of one of them lists more
\* than one face
C25_Witness ==
  /\ status = "ok"
  /\ lastCall = "insert_boundary"
  /\ Cardinality({h \in DOMAIN matrix_ : matrix_[h].pair # -1 /\ matrix_[h].pair < h}) >= 2
  /\ \E h \in DOMAIN matrix_ :
       /\ matrix_[h].pair # -1 /\ matrix_[h].pair < h
       /\ Cardinality(matrix_[h].rows) > 1

\* C26: every call to insert_boundary whose boundary consists of indices of
\* previously inserted faces terminates: the two loops of _reduce_boundary
\* never come back to a working column they already had.
C26_ReductionTerminates ==
  lastCall = "insert_boundary" => status # "diverged"

\* ------------------------------------------------------------------ claims: rows of a column
\* C27: for a Vector_boundary_column with row access, at every point between
\* operations a cell of the column is linked in row r exactly when the column
\* reports is_non_zero(r); in particular after clear(rowIndex) the row of
\* rowIndex holds no cell of the column.
C27_RowLinksMatchColumn ==
  kind = "Vector_boundary_column" =>
    \A r \in Rows : r \in linked_rows(column_) <=> is_non_zero(column_, erasedValues_, r)

\* the largest dimension among the columns, -1 when there is none
LargestDimension ==
  IF DOMAIN matrix_ = {} THEN -1 ELSE Max({matrix_[c].dim : c \in DOMAIN matrix_})

\* C28: every erase_last() on a chain matrix holding a column completes
\* normally, and after it get_max_dimension() is the largest dimension among
\* the remaining columns, -1 when no column remains.
C28_MaxDimensionAfterEraseLast ==
  [][(nextInsertIndex_ > 0 /\ erase_last) =>
       (status' = "ok" /\ maxDim_' = LargestDimension')]_vars

\* ------------------------------------------------------------------ claims: copies
\* what the accessors of a matrix state return: the columns with their
\* pivots and pairings, the pivot-to-column map, the barcode, the maximal
\* dimension, the number of columns, and whether the last call completed
Observed(T) ==
  [columns |-> T.m, pivots |-> T.p, barcode |-> T.bars, maxDim |-> T.maxDim,
   numberOfColumns |-> T.n, st |-> T.st]

\* the matrix state C is observed as the current matrix, and the call made
\* by this step gives the same result on C
BehavesAsSource(C) ==
  /\ Observed(C) = Observed(MatrixState)
  /\ \A boundary \in SUBSET FaceIndices :
       (insert_boundary(boundary) /\ status' = "ok") =>
         Observed(insert_boundary_state(C, boundary)) = Observed(MatrixState')
  /\ (nextInsertIndex_ > 1 /\ erase_last /\ status' = "ok") =>
       \A emptyRead \in {"stop", "corrupt"} :
         Observed(erase_last_state(C, emptyRead)) = Observed(MatrixState')

\* C29: a copy-constructed or move-constructed chain matrix is equivalent to
\* its source: same columns, pivots, pairings, barcode and maximal dimension,
\* and a following insert_boundary or erase_last gives the same result on it
\* as on the source.
C29_CopyBehavesAsSource ==
  [][/\ BehavesAsSource(copy_constructor(MatrixState))
     /\ BehavesAsSource(move_constructor(MatrixState))]_vars

\* the same for the move constructor alone
MovedBehavesAsSource == [][BehavesAsSource(move_constructor(MatrixState))]_vars

\* ------------------------------------------------------------------ claims: assignment of overlays
\* b is the overlay the calls are made on, a another overlay after a = b
OverlayB == [dictionary |-> "of b", nextIndex_ |-> nextIndex_]
OverlayA == overlay_assign([dictionary |-> "of a", nextIndex_ |-> 0], OverlayB)

\* the content of a dictionary: that of b is idToIndex_, that of a was left
\* as its constructor made it
Dictionary(name) == IF name = "of b" THEN idToIndex_ ELSE <<>>

\* how many times a dictionary is released when a and b are destroyed
Released(name) ==
  Cardinality({o \in {"a", "b"} :
                 overlay_destructor(IF o = "a" THEN OverlayA ELSE OverlayB) = name})

\* C30: after a = b on overlays of boundary type the two objects own
\* independent ID-to-index maps: a call on b leaves the mapping of a
\* unchanged, and each map is released exactly once.
C30_AssignedOverlaysAreIndependent ==
  [][/\ OverlayA.dictionary # OverlayB.dictionary
     /\ Mapping(Dictionary(OverlayA.dictionary))' = Mapping(Dictionary(OverlayA.dictionary))
     /\ \A name \in {"of a", "of b"} : Released(name) = 1]_vars

====
